---------------------------- MODULE Spec2Model ----------------------------
(***************************************************************************)
(* Orchestration state machine of the resume-to-job-matching client        *)
(* (src/src/App.tsx) and of the gateway wrappers it calls                  *)
(* (src/src/services/geminiService.ts).                                    *)
(*                                                                         *)
(* One variable per React state cell of App, one action per event handler  *)
(* or per continuation of an async handler after an await.  A handler runs *)
(* to its next await without interleaving and React applies its setState   *)
(* calls before the next event, so each action is one atomic step.  A      *)
(* continuation reads the values its closure captured when the handler was *)
(* invoked; those captured values are kept in the request records.         *)
(*                                                                         *)
(* Texts and skills are sequences of one-character strings so that trim,   *)
(* toLowerCase and includes are computed, not assumed.                     *)
(***************************************************************************)
EXTENDS Naturals, Sequences, FiniteSets, TLC

(***************************************************************************)
(* Bounds of the model.                                                    *)
(***************************************************************************)
MaxUploads == 1
UploadSearches == 1
BoardSearches == 1
EditSearches == 2
MaxHistory == 3
MaxTailors == 2
MaxMailRuns == 1
LiveTailors == 1

(***************************************************************************)
(* Option values: null is the empty tuple, a value v is <<v>>.             *)
(***************************************************************************)
None == << >>
Some(v) == << v >>

(***************************************************************************)
(* Strings as character sequences.                                         *)
(***************************************************************************)
SkGo == << "G", "o" >>
SkGoLower == << "g", "o" >>
SkC == << "C" >>
Blank == << " " >>
Empty == << >>

LowerChar(c) ==
    CASE c = "G" -> "g"
      [] c = "O" -> "o"
      [] c = "C" -> "c"
      [] OTHER -> c

\* String.prototype.toLowerCase
ToLowerCase(s) == [i \in 1..Len(s) |-> LowerChar(s[i])]

\* String.prototype.includes
Includes(t, s) ==
    \E k \in 0..Len(t) :
        /\ k + Len(s) <= Len(t)
        /\ \A i \in 1..Len(s) : t[k + i] = s[i]

IsSpace(c) == c = " "

RECURSIVE TrimStart(_)
TrimStart(s) ==
    IF s # << >> /\ IsSpace(Head(s)) THEN TrimStart(Tail(s)) ELSE s

RECURSIVE TrimEnd(_)
TrimEnd(s) ==
    IF s # << >> /\ IsSpace(s[Len(s)]) THEN TrimEnd(SubSeq(s, 1, Len(s) - 1)) ELSE s

\* String.prototype.trim
\* Mutant: nothing is trimmed.
TrimNothing(s) == s
Trim(s) == TrimEnd(TrimStart(s))

\* Array.prototype.filter(s => s !== x)
RECURSIVE Without(_, _)
Without(seq, x) ==
    IF seq = << >> THEN << >>
    ELSE IF Head(seq) = x THEN Without(Tail(seq), x)
         ELSE << Head(seq) >> \o Without(Tail(seq), x)

\* [...new Set(seq)]: first occurrences, in insertion order
RECURSIVE Dedupe(_)
Dedupe(seq) ==
    IF seq = << >> THEN << >>
    ELSE << Head(seq) >> \o Dedupe(Without(Tail(seq), Head(seq)))

Range(seq) == {seq[i] : i \in 1..Len(seq)}

NoDuplicates(seq) == \A i, j \in 1..Len(seq) : seq[i] = seq[j] => i = j

(***************************************************************************)
(* Input domains.                                                          *)
(***************************************************************************)
TimeFilters == {"24h", "48h", "72h"}
JobTypes == {"all", "onsite", "hybrid", "remote"}
Kinds == {"resume", "coverLetter"}

\* Raw text decoded from a dropped file.
RawTexts == { Blank, << "G", "o" >> }
\* What the structuring request can come back with (empty: response.text is falsy).
StructuredTexts == { Empty, << "G", "O", " ", "C" >> }
\* Skill arrays the analysis request can come back with.
GatewaySkills ==
    { << >>, << SkGo >>, << SkGo, SkGo >>, << SkGo, SkGoLower >>, << SkC, << "X" >> >> }
\* What the user can type into the add-skill box.
SkillInputs == { Empty, Blank, << " ", "C", " " >>, SkGo, SkGoLower }
\* What the user can type into the skill box of the edit modal.
ModalSkillInputs == { Blank, << " ", "C", " " >> }
Summaries == {"s0", "s1"}

\* Companies are character sequences: the first holds a run of two spaces
\* followed by an ampersand, the second is plain.
J1 == [link |-> "l1", company |-> << "A", " ", " ", "&", "C" >>, contactEmail |-> TRUE]
J2 == [link |-> "l2", company |-> << "B", "o" >>, contactEmail |-> FALSE]
\* Job arrays the search request can come back with.
JobLists == { << >>, << J1 >>, << J2, J1 >> }

VARIABLES
    resumeText,      \* App.tsx:42
    isAnalyzing,     \* App.tsx:43
    isSearching,     \* App.tsx:44
    isGenerating,    \* App.tsx:45  None or <<link, kind>>
    analysis,        \* App.tsx:46  None or Some([skills, summary])
    jobs,            \* App.tsx:47
    timeFilter,      \* App.tsx:49
    jobType,         \* App.tsx:50
    dropJobType,     \* jobType seen by the memoized onDrop (useCallback deps [timeFilter])
    isEditModalOpen, \* App.tsx:53
    editDraft,       \* App.tsx:54
    history,         \* App.tsx:55
    emailModalJob,   \* App.tsx:56
    emailOptions,    \* App.tsx:57
    isSendingMail,   \* App.tsx:63
    error,           \* App.tsx:64  None or Some(message)
    uploads,         \* upload runs (reader.onload invocations), in start order
    searches,        \* searchJobs requests, in issue order: [st, result]
    lastRequest,     \* None or the arguments of the latest searchJobs call
    tailors,         \* generateTailoredContent requests, in issue order
    mailRun,         \* None or the handleSendMail invocation in progress
    openedWith,      \* the analysis that openEditModal snapshotted
    expandedJobs,    \* App.tsx:48  positions of the expanded job cards
    effects,         \* what the latest continuation of handleGenerateTailored or
                     \* handleSendMail did outside the state: downloads, mail link
    pdf,             \* None or the document downloadAsPDF is laying out
    lastOp,          \* <<handler or continuation that made the last step, detail>>
    fuel             \* how many more requests of each kind the run may issue

coreVars == << resumeText, isAnalyzing, isSearching, analysis, jobs, timeFilter,
               jobType, dropJobType, error, uploads, searches, lastRequest >>
editVars == << isEditModalOpen, editDraft, history, openedWith >>
tailorVars == << isGenerating, tailors >>
mailVars == << emailModalJob, emailOptions, isSendingMail, mailRun >>
outVars == << expandedJobs, effects, pdf >>
vars == << coreVars, editVars, tailorVars, mailVars, outVars, lastOp, fuel >>


(***************************************************************************)
(* Gateway wrappers (geminiService.ts).                                    *)
(***************************************************************************)
\* analyzeResume, lines 73-80: keep the skills that occur in the text, ignoring case.
\* Mutant: the gateway's skills are trusted as they are.
FilterSkillsTrusting(skills, lowerResume) == skills
RECURSIVE FilterSkills(_, _)
FilterSkills(skills, lowerResume) ==
    IF skills = << >> THEN << >>
    ELSE IF Includes(lowerResume, ToLowerCase(Head(skills)))
         THEN << Head(skills) >> \o FilterSkills(Tail(skills), lowerResume)
         ELSE FilterSkills(Tail(skills), lowerResume)

\* analyzeResume: the parsed gateway answer with its skills filtered.
AnalyzeResume(text, gatewaySkills) ==
    [skills |-> FilterSkills(gatewaySkills, ToLowerCase(text)), summary |-> "s0"]

\* structureResume, line 103: response.text || rawText
StructureResume(rawText, responseText) ==
    IF responseText = Empty THEN rawText ELSE responseText

(***************************************************************************)
(* State after construction (useState initial values).                     *)
(***************************************************************************)
DefaultEmailOptions ==
    [attachTailoredResume |-> TRUE, attachTailoredCoverLetter |-> TRUE,
     generateMailContent |-> TRUE, attachUploadedResume |-> FALSE]

Constructed ==
    /\ resumeText = Empty
    /\ isAnalyzing = FALSE
    /\ isSearching = FALSE
    /\ isGenerating = None
    /\ analysis = None
    /\ jobs = << >>
    /\ timeFilter = "24h"
    /\ jobType = "all"
    /\ dropJobType = "all"
    /\ isEditModalOpen = FALSE
    /\ editDraft = None
    /\ history = << >>
    /\ emailModalJob = None
    /\ emailOptions = DefaultEmailOptions
    /\ isSendingMail = FALSE
    /\ error = None
    /\ uploads = << >>
    /\ searches = << >>
    /\ lastRequest = None
    /\ tailors = << >>
    /\ mailRun = None
    /\ openedWith = None
    /\ expandedJobs = {}
    /\ effects = << >>
    /\ pdf = None
    /\ lastOp = << "init", "" >>

Init ==
    /\ Constructed
    /\ fuel = [uploads |-> MaxUploads, searches |-> UploadSearches,
               tailors |-> 0, mails |-> 0]

(***************************************************************************)
(* Job Board Controller.                                                   *)
(***************************************************************************)
\* timeQuery (geminiService.ts:111)
TimeQuery(f) ==
    IF f = "24h" THEN "last 24 hours"
    ELSE IF f = "48h" THEN "last 2 days" ELSE "last 3 days"

\* Mutant: every listed skill goes into the request.
EverySkill(skills) == skills
\* analysis.skills.slice(0, 5) (geminiService.ts:113)
KeySkills(skills) ==
    SubSeq(skills, 1, IF Len(skills) < 5 THEN Len(skills) ELSE 5)

\* analysis.location is optional (geminiService.ts:22): a record without the
\* field, or with the empty string, has no location to filter on.
LocationOf(a) ==
    IF "location" \in DOMAIN a /\ a.location # Empty THEN Some(a.location) ELSE None

\* One sentence of the location constraint, with the place it names if any.
Sentence(text, place) == [text |-> text, place |-> place]

\* locationConstraint (geminiService.ts:115-125)
LocationConstraint(a, t) ==
    LET based == IF LocationOf(a) # None
                 THEN << Sentence("STRICTLY filter for jobs in or near", LocationOf(a)) >>
                 ELSE << Sentence("search globally or for major tech hubs", None) >>
    IN  IF t = "remote" THEN << Sentence("ONLY search for 100% REMOTE jobs", None) >>
        ELSE IF t = "hybrid"
             THEN Append(based, Sentence("ONLY search for HYBRID roles", None))
        ELSE IF t = "onsite"
             THEN Append(based, Sentence("ONLY search for ONSITE roles", None))
        ELSE based

\* What searchJobs puts into its prompt (geminiService.ts:111-131)
SearchCriteria(a, f, t) ==
    [skills |-> KeySkills(a.skills), window |-> TimeQuery(f),
     constraint |-> LocationConstraint(a, t)]

SearchRequest(a, f, t) ==
    [analysis |-> a, filter |-> f, type |-> t, criteria |-> SearchCriteria(a, f, t)]

\* handleSearch up to its await: issue the request, set the flag, clear the error.
HandleSearch(a, f, t) ==
    /\ fuel.searches > 0
    /\ fuel' = [fuel EXCEPT !.searches = @ - 1]
    /\ searches' = Append(searches, [st |-> "pending", result |-> << >>])
    /\ lastRequest' = Some(SearchRequest(a, f, t))
    /\ isSearching' = TRUE
    /\ error' = None

\* What handleSearch does with the job list when its request resolves.
JobsAfterSearch(i, results) == results

\* handleSearch after its await.  outcome "ok": the gateway answered with the
\* array results; "unparsable": searchJobs caught the JSON.parse error and
\* returned []; "failed": the request threw.
SearchResolved(i, outcome, results) ==
    /\ searches[i].st = "pending"
    /\ \/ /\ outcome = "ok"
          /\ searches' = [searches EXCEPT ![i].st = "ok", ![i].result = results]
          /\ jobs' = JobsAfterSearch(i, results)
          /\ error' = error
       \/ /\ outcome = "unparsable"
          /\ results = << >>
          /\ searches' = [searches EXCEPT ![i].st = "unparsable"]
          /\ jobs' = JobsAfterSearch(i, << >>)
          /\ error' = error
       \/ /\ outcome = "failed"
          /\ results = << >>
          /\ searches' = [searches EXCEPT ![i].st = "failed"]
          /\ jobs' = jobs
          /\ error' = Some("Failed to fetch jobs")
    /\ isSearching' = FALSE
    /\ lastOp' = << "searchResolved", outcome >>
    /\ UNCHANGED fuel
    /\ UNCHANGED << resumeText, isAnalyzing, analysis, timeFilter, jobType,
                    dropJobType, uploads, lastRequest >>
    /\ UNCHANGED << editVars, tailorVars, mailVars, outVars >>

\* The profile sidebar and the job board are rendered only with an analysis.
BoardRendered == analysis # None

\* Mutant: the search of a time filter change carries the old filter.
ChangeFilterHandlerSearchingOld(newFilter) ==
    /\ timeFilter' = newFilter
    /\ dropJobType' = IF newFilter # timeFilter THEN jobType ELSE dropJobType
    /\ IF analysis # None
       THEN HandleSearch(analysis[1], timeFilter, jobType)
       ELSE UNCHANGED << searches, lastRequest, isSearching, error, fuel >>
    /\ lastOp' = << "changeFilter", newFilter >>
    /\ UNCHANGED << resumeText, isAnalyzing, analysis, jobs, jobType, uploads >>
    /\ UNCHANGED << editVars, tailorVars, mailVars, outVars >>

\* changeFilter.  onDrop is re-memoized when timeFilter changes and then
\* closes over the handleSearch (and its jobType) of that render.
ChangeFilterHandler(newFilter) ==
    /\ timeFilter' = newFilter
    /\ dropJobType' = IF newFilter # timeFilter THEN jobType ELSE dropJobType
    /\ IF analysis # None
       THEN HandleSearch(analysis[1], newFilter, jobType)
       ELSE UNCHANGED << searches, lastRequest, isSearching, error, fuel >>
    /\ lastOp' = << "changeFilter", newFilter >>
    /\ UNCHANGED << resumeText, isAnalyzing, analysis, jobs, jobType, uploads >>
    /\ UNCHANGED << editVars, tailorVars, mailVars, outVars >>

\* The time filter buttons of the board (line 569)
ChangeFilter(newFilter) == BoardRendered /\ ChangeFilterHandler(newFilter)

\* changeJobType
ChangeJobTypeHandler(newType) ==
    /\ jobType' = newType
    /\ IF analysis # None
       THEN HandleSearch(analysis[1], timeFilter, newType)
       ELSE UNCHANGED << searches, lastRequest, isSearching, error, fuel >>
    /\ lastOp' = << "changeJobType", newType >>
    /\ UNCHANGED << resumeText, isAnalyzing, analysis, jobs, timeFilter,
                    dropJobType, uploads >>
    /\ UNCHANGED << editVars, tailorVars, mailVars, outVars >>

\* The job type buttons of the board (line 552)
ChangeJobType(newType) == BoardRendered /\ ChangeJobTypeHandler(newType)

(***************************************************************************)
(* Profile Store: skills of the live analysis.                             *)
(***************************************************************************)
\* Mutant: the added skill is put first.
AddedSkillsFirst(skills, s) == Dedupe(<< s >> \o skills)
\* handleAddSkill, line 187
AddedSkills(skills, s) == Dedupe(Append(skills, s))

\* Mutant: only the first entry equal to s is removed.
RECURSIVE RemovedFirstSkill(_, _)
RemovedFirstSkill(skills, s) ==
    IF skills = << >> THEN << >>
    ELSE IF Head(skills) = s THEN Tail(skills)
         ELSE << Head(skills) >> \o RemovedFirstSkill(Tail(skills), s)
\* handleRemoveSkill, line 199
RemovedSkills(skills, s) == Without(skills, s)

\* Mutant: whatever is in the input box is accepted.
SkillAcceptedAlways(newSkill) == TRUE
\* newSkill.trim() as a condition (line 184): the empty string is falsy
SkillAccepted(newSkill) == Trim(newSkill) # Empty

\* handleAddSkill (the form is submitted with the content of the input box)
AddSkill(newSkill) ==
    /\ BoardRendered
    /\ IF SkillAccepted(newSkill) /\ analysis # None
       THEN LET updated == [analysis[1] EXCEPT
                               !.skills = AddedSkills(@, Trim(newSkill))]
            IN /\ analysis' = Some(updated)
               /\ HandleSearch(updated, timeFilter, jobType)
               /\ lastOp' = << "addSkill", "added" >>
       ELSE /\ UNCHANGED << analysis, searches, lastRequest, isSearching, error, fuel >>
            /\ lastOp' = << "addSkill", "ignored" >>
    /\ UNCHANGED << resumeText, isAnalyzing, jobs, timeFilter, jobType,
                    dropJobType, uploads >>
    /\ UNCHANGED << editVars, tailorVars, mailVars, outVars >>

\* handleRemoveSkill as coded (lines 195-204), for any argument
HandleRemoveSkill(skillToRemove) ==
    /\ IF analysis # None
       THEN LET updated == [analysis[1] EXCEPT
                               !.skills = RemovedSkills(@, skillToRemove)]
            IN /\ analysis' = Some(updated)
               /\ HandleSearch(updated, timeFilter, jobType)
               /\ lastOp' = << "removeSkill", "removed" >>
       ELSE /\ UNCHANGED << analysis, searches, lastRequest, isSearching, error, fuel >>
            /\ lastOp' = << "removeSkill", "ignored" >>
    /\ UNCHANGED << resumeText, isAnalyzing, jobs, timeFilter, jobType,
                    dropJobType, uploads >>
    /\ UNCHANGED << editVars, tailorVars, mailVars, outVars >>

\* handleRemoveSkill called from the X of a rendered skill chip (line 494)
RemoveSkill(skillToRemove) ==
    /\ BoardRendered
    /\ skillToRemove \in Range(analysis[1].skills)
    /\ HandleRemoveSkill(skillToRemove)

\* "Upload New" (line 387)
StartOver ==
    /\ BoardRendered
    /\ analysis' = None
    /\ jobs' = << >>
    /\ resumeText' = Empty
    /\ lastOp' = << "startOver", "" >>
    /\ UNCHANGED fuel
    /\ UNCHANGED << isAnalyzing, isSearching, timeFilter, jobType, dropJobType,
                    error, uploads, searches, lastRequest >>
    /\ UNCHANGED << editVars, tailorVars, mailVars, outVars >>

(***************************************************************************)
(* Upload Pipeline (onDrop and the continuations of reader.onload).        *)
(***************************************************************************)
Files ==
    {[docx |-> FALSE, raw |-> r] : r \in RawTexts} \cup {[docx |-> TRUE, raw |-> Empty]}

UploadError == Some("Failed to process resume")

\* A run that has ended: nothing of its closure is read again.
Ended(run, stage) ==
    [docx |-> run.docx, raw |-> Empty, filter |-> "", type |-> "",
     stage |-> stage, text |-> Empty, gateway |-> << >>]

\* A run whose analyzeResume call has returned: the text the call was made
\* with and the skills of the gateway's answer (line 70) are kept on record.
Analyzed(run, gatewaySkills) ==
    [Ended(run, "done") EXCEPT !.text = run.text, !.gateway = gatewaySkills]

\* The dropzone is rendered only without an analysis.
DropzoneRendered == analysis = None

\* onDrop: start reading the file.  The run keeps the timeFilter and the
\* handleSearch (hence jobType) that the memoized callback closed over.
Drop(file) ==
    /\ DropzoneRendered
    /\ fuel.uploads > 0
    /\ fuel' = [fuel EXCEPT !.uploads = @ - 1]
    /\ uploads' = Append(uploads,
                         [docx |-> file.docx, raw |-> file.raw,
                          filter |-> timeFilter, type |-> dropJobType,
                          stage |-> "reading", text |-> Empty, gateway |-> << >>])
    /\ lastOp' = << "onDrop", "" >>
    /\ UNCHANGED << resumeText, isAnalyzing, isSearching, analysis, jobs,
                    timeFilter, jobType, dropJobType, error, searches, lastRequest >>
    /\ UNCHANGED << editVars, tailorVars, mailVars, outVars >>

\* Lines 86-91 with extracted text rawText: throw on blank text (catch and
\* finally run in the same step), else issue the structuring request.
AfterExtraction(i, rawText) ==
    IF Trim(rawText) = Empty
    THEN /\ uploads' = [uploads EXCEPT ![i] = Ended(@, "failed")]
         /\ error' = UploadError
         /\ isAnalyzing' = FALSE
         /\ lastOp' = << "upload", "extractionError" >>
    ELSE /\ uploads' = [uploads EXCEPT ![i].stage = "structuring", ![i].raw = rawText]
         /\ error' = None
         /\ isAnalyzing' = TRUE
         /\ lastOp' = << "upload", "structuring" >>

\* reader.onload up to its first await
OnLoad(i) ==
    /\ uploads[i].stage = "reading"
    /\ IF uploads[i].docx
       THEN /\ uploads' = [uploads EXCEPT ![i].stage = "extracting"]
            /\ error' = None
            /\ isAnalyzing' = TRUE
            /\ lastOp' = << "upload", "extracting" >>
       ELSE AfterExtraction(i, uploads[i].raw)
    /\ UNCHANGED << resumeText, isSearching, analysis, jobs, timeFilter, jobType,
                    dropJobType, searches, lastRequest, fuel >>
    /\ UNCHANGED << editVars, tailorVars, mailVars, outVars >>

\* mammoth.extractRawText resolved
Extracted(i, ok, rawText) ==
    /\ uploads[i].stage = "extracting"
    /\ IF ok
       THEN IF Trim(rawText) = Empty
            THEN /\ uploads' = [uploads EXCEPT ![i] = Ended(@, "failed")]
                 /\ error' = UploadError
                 /\ isAnalyzing' = FALSE
                 /\ lastOp' = << "upload", "extractionError" >>
            ELSE /\ uploads' = [uploads EXCEPT ![i].stage = "structuring",
                                               ![i].raw = rawText]
                 /\ UNCHANGED << error, isAnalyzing >>
                 /\ lastOp' = << "upload", "structuring" >>
       ELSE /\ uploads' = [uploads EXCEPT ![i] = Ended(@, "failed")]
            /\ error' = UploadError
            /\ isAnalyzing' = FALSE
            /\ lastOp' = << "upload", "extractorFailed" >>
    /\ UNCHANGED << resumeText, isSearching, analysis, jobs, timeFilter, jobType,
                    dropJobType, searches, lastRequest, fuel >>
    /\ UNCHANGED << editVars, tailorVars, mailVars, outVars >>

\* structureResume resolved (lines 91-95)
StructureResolved(i, ok, responseText) ==
    /\ uploads[i].stage = "structuring"
    /\ IF ok
       THEN LET structuredText == StructureResume(uploads[i].raw, responseText)
            IN /\ resumeText' = structuredText
               /\ uploads' = [uploads EXCEPT ![i].stage = "analyzing",
                                             ![i].text = structuredText]
               /\ UNCHANGED << error, isAnalyzing >>
               /\ lastOp' = << "upload", "analyzing" >>
       ELSE /\ uploads' = [uploads EXCEPT ![i] = Ended(@, "failed")]
            /\ error' = UploadError
            /\ isAnalyzing' = FALSE
            /\ UNCHANGED resumeText
            /\ lastOp' = << "upload", "structuringFailed" >>
    /\ UNCHANGED << isSearching, analysis, jobs, timeFilter, jobType,
                    dropJobType, searches, lastRequest, fuel >>
    /\ UNCHANGED << editVars, tailorVars, mailVars, outVars >>

\* Mutant: a failed analysis rolls the resume text back.
AnalyzeResolvedRollingBack(i, ok, gatewaySkills) ==
    /\ uploads[i].stage = "analyzing"
    /\ IF ok
       THEN LET result == AnalyzeResume(uploads[i].text, gatewaySkills)
            IN /\ analysis' = Some(result)
               /\ HandleSearch(result, uploads[i].filter, uploads[i].type)
               /\ uploads' = [uploads EXCEPT ![i] = Analyzed(@, gatewaySkills)]
               /\ lastOp' = << "upload", "done" >>
               /\ UNCHANGED resumeText
       ELSE /\ uploads' = [uploads EXCEPT ![i] = Ended(@, "failed")]
            /\ error' = UploadError
            /\ resumeText' = Empty
            /\ UNCHANGED << analysis, searches, lastRequest, isSearching, fuel >>
            /\ lastOp' = << "upload", "analysisFailed" >>
    /\ isAnalyzing' = FALSE
    /\ UNCHANGED << jobs, timeFilter, jobType, dropJobType >>
    /\ UNCHANGED << editVars, tailorVars, mailVars, outVars >>

\* analyzeResume resolved (lines 95-103)
AnalyzeResolved(i, ok, gatewaySkills) ==
    /\ uploads[i].stage = "analyzing"
    /\ IF ok
       THEN LET result == AnalyzeResume(uploads[i].text, gatewaySkills)
            IN /\ analysis' = Some(result)
               /\ HandleSearch(result, uploads[i].filter, uploads[i].type)
               /\ uploads' = [uploads EXCEPT ![i] = Analyzed(@, gatewaySkills)]
               /\ lastOp' = << "upload", "done" >>
       ELSE /\ uploads' = [uploads EXCEPT ![i] = Ended(@, "failed")]
            /\ error' = UploadError
            /\ UNCHANGED << analysis, searches, lastRequest, isSearching, fuel >>
            /\ lastOp' = << "upload", "analysisFailed" >>
    /\ isAnalyzing' = FALSE
    /\ UNCHANGED << resumeText, jobs, timeFilter, jobType, dropJobType >>
    /\ UNCHANGED << editVars, tailorVars, mailVars, outVars >>

(***************************************************************************)
(* The board: uploads, searches, filters, skills, start over.              *)
(***************************************************************************)
UploadStep ==
    \/ \E file \in Files : Drop(file)
    \/ \E i \in DOMAIN uploads : OnLoad(i)
    \/ \E i \in DOMAIN uploads, ok \in BOOLEAN, rawText \in RawTexts :
          Extracted(i, ok, IF ok THEN rawText ELSE Empty)
    \/ \E i \in DOMAIN uploads, ok \in BOOLEAN, responseText \in StructuredTexts :
          StructureResolved(i, ok, IF ok THEN responseText ELSE Empty)
    \/ \E i \in DOMAIN uploads, ok \in BOOLEAN, gatewaySkills \in GatewaySkills :
          AnalyzeResolved(i, ok, IF ok THEN gatewaySkills ELSE << >>)

\* A pending search request resolves, with one of the job arrays lists or not at all.
SearchResponse(lists) ==
    \E i \in DOMAIN searches :
        \/ \E results \in lists : SearchResolved(i, "ok", results)
        \/ SearchResolved(i, "unparsable", << >>)
        \/ SearchResolved(i, "failed", << >>)

SearchStep == SearchResponse(JobLists)

BoardStep ==
    \/ \E f \in TimeFilters : ChangeFilter(f)
    \/ \E t \in JobTypes : ChangeJobType(t)
    \/ \E s \in SkillInputs : AddSkill(s)
    \/ \E s \in Range(IF analysis = None THEN << >> ELSE analysis[1].skills) :
          RemoveSkill(s)
    \/ StartOver

\* The upload pipeline from the state after construction.
NextUpload == UploadStep \/ SearchStep \/ StartOver

SpecUpload == Init /\ [][NextUpload]_vars

\* A first run is under way: a text file has been dropped and read and its
\* structuring request is in flight; further files can still be dropped.
\* Every run can issue one search.
FirstRunStructuring ==
    /\ resumeText = Empty
    /\ isAnalyzing = TRUE
    /\ isSearching = FALSE
    /\ isGenerating = None
    /\ analysis = None
    /\ jobs = << >>
    /\ timeFilter = "24h"
    /\ jobType = "all"
    /\ dropJobType = "all"
    /\ isEditModalOpen = FALSE
    /\ editDraft = None
    /\ history = << >>
    /\ emailModalJob = None
    /\ emailOptions = DefaultEmailOptions
    /\ isSendingMail = FALSE
    /\ error = None
    /\ uploads = << [docx |-> FALSE, raw |-> << "G", "o" >>, filter |-> "24h",
                     type |-> "all", stage |-> "structuring", text |-> Empty,
                     gateway |-> << >>] >>
    /\ searches = << >>
    /\ lastRequest = None
    /\ tailors = << >>
    /\ mailRun = None
    /\ openedWith = None
    /\ expandedJobs = {}
    /\ effects = << >>
    /\ pdf = None
    /\ lastOp = << "upload", "structuring" >>

InitReupload ==
    /\ FirstRunStructuring
    /\ fuel = [uploads |-> MaxUploads, searches |-> MaxUploads + 1,
               tailors |-> 0, mails |-> 0]

SpecReupload == InitReupload /\ [][NextUpload]_vars

\* The state a successful upload run leaves: text structured, analysis set,
\* the run's search in flight.
Board(text, gatewaySkills, analyzed) ==
    /\ resumeText = text
    /\ isAnalyzing = FALSE
    /\ isSearching = TRUE
    /\ isGenerating = None
    /\ analysis = Some(analyzed)
    /\ jobs = << >>
    /\ timeFilter = "24h"
    /\ jobType = "all"
    /\ dropJobType = "all"
    /\ isEditModalOpen = FALSE
    /\ editDraft = None
    /\ history = << >>
    /\ emailModalJob = None
    /\ emailOptions = DefaultEmailOptions
    /\ isSendingMail = FALSE
    /\ error = None
    /\ uploads = << Analyzed([docx |-> FALSE, text |-> text], gatewaySkills) >>
    /\ searches = << [st |-> "pending", result |-> << >>] >>
    /\ lastRequest = Some(SearchRequest(analyzed, "24h", "all"))
    /\ tailors = << >>
    /\ mailRun = None
    /\ openedWith = None
    /\ expandedJobs = {}
    /\ effects = << >>
    /\ pdf = None
    /\ lastOp = << "upload", "done" >>

AfterUpload(text, gatewaySkills) ==
    Board(text, gatewaySkills, AnalyzeResume(text, gatewaySkills))

InitBoard ==
    /\ \E gatewaySkills \in GatewaySkills :
          AfterUpload(StructureResume(<< "G", "o" >>, Empty), gatewaySkills)
    /\ fuel = [uploads |-> 0, searches |-> BoardSearches, tailors |-> 0, mails |-> 0]

Next == SearchStep \/ BoardStep

Spec == InitBoard /\ [][Next]_vars

(***************************************************************************)
(* Profile Store: the edit session (draft buffer with undo history).       *)
(***************************************************************************)
\* openEditModal, line 209: the history is seeded with a copy of the analysis.
SeededHistory(a) == << a >>

\* handleUpdateDraft, line 216
DraftAfterUpdate(draft, field, value) == [draft EXCEPT ![field] = value]

\* Mutant: a snapshot is pushed twice.
HistoryAfterSaveTwice(h, draft) == h \o << draft, draft >>
\* saveField, line 222
HistoryAfterSave(h, draft) == Append(h, draft)

\* undoField, lines 229-232
UndoAllowed(h) == Len(h) > 1
\* Mutant: undo restores the last snapshot instead of the one before it.
DraftAfterUndoLast(h) == h[Len(h)]
DraftAfterUndo(h) == h[Len(h) - 1]
\* Mutant: undo drops the oldest snapshot instead of the newest.
HistoryAfterUndoFromHead(h) == Tail(h)
HistoryAfterUndo(h) == SubSeq(h, 1, Len(h) - 1)

\* Mutant: the commit takes the last snapshot instead of the draft.
CommittedSnapshot(draft, h) == h[Len(h)]
\* handleRefineSearch, lines 238-240: what is committed and searched with.
CommittedDraft(draft, h) == draft

\* The modal is rendered under isEditModalOpen && editDraft (line 727).
EditModalRendered == isEditModalOpen /\ editDraft # None

\* openEditModal (the pencil button of the profile sidebar)
OpenEditModal ==
    /\ BoardRendered
    /\ IF analysis # None
       THEN /\ editDraft' = analysis
            /\ history' = SeededHistory(analysis[1])
            /\ isEditModalOpen' = TRUE
            /\ openedWith' = analysis
       ELSE UNCHANGED editVars
    /\ lastOp' = << "openEditModal", "" >>
    /\ UNCHANGED << coreVars, tailorVars, mailVars, outVars, fuel >>

\* Mutant: every field update also pushes a snapshot.
HandleUpdateDraftPushing(field, value) ==
    /\ EditModalRendered
    /\ editDraft' = Some(DraftAfterUpdate(editDraft[1], field, value))
    /\ history' = Append(history, editDraft[1])
    /\ lastOp' = << "updateDraft", field >>
    /\ UNCHANGED << isEditModalOpen, openedWith >>
    /\ UNCHANGED << coreVars, tailorVars, mailVars, outVars, fuel >>

\* handleUpdateDraft
HandleUpdateDraft(field, value) ==
    /\ EditModalRendered
    /\ IF editDraft # None
       THEN editDraft' = Some(DraftAfterUpdate(editDraft[1], field, value))
       ELSE UNCHANGED editDraft
    /\ lastOp' = << "updateDraft", field >>
    /\ UNCHANGED << isEditModalOpen, history, openedWith >>
    /\ UNCHANGED << coreVars, tailorVars, mailVars, outVars, fuel >>

\* The X of a skill chip in the modal (line 797)
DraftRemoveSkill(skill) ==
    /\ EditModalRendered
    /\ skill \in Range(editDraft[1].skills)
    /\ HandleUpdateDraft("skills", Without(editDraft[1].skills, skill))

\* Enter or the plus button in the modal's skill box (lines 814-816, 826-828)
DraftAddSkill(newSkillInModal) ==
    /\ EditModalRendered
    /\ Trim(newSkillInModal) # Empty
    /\ HandleUpdateDraft("skills",
                         Dedupe(Append(editDraft[1].skills, Trim(newSkillInModal))))

\* saveField: the whole draft is pushed, whatever the field.
SaveField(field) ==
    /\ EditModalRendered
    /\ Len(history) < MaxHistory
    /\ IF editDraft # None
       THEN history' = HistoryAfterSave(history, editDraft[1])
       ELSE UNCHANGED history
    /\ lastOp' = << "saveField", "" >>
    /\ UNCHANGED << isEditModalOpen, editDraft, openedWith >>
    /\ UNCHANGED << coreVars, tailorVars, mailVars, outVars, fuel >>

\* undoField
UndoField ==
    /\ EditModalRendered
    /\ IF UndoAllowed(history)
       THEN /\ editDraft' = Some(DraftAfterUndo(history))
            /\ history' = HistoryAfterUndo(history)
            /\ lastOp' = << "undoField", "restored" >>
       ELSE /\ UNCHANGED << editDraft, history >>
            /\ lastOp' = << "undoField", "ignored" >>
    /\ UNCHANGED << isEditModalOpen, openedWith >>
    /\ UNCHANGED << coreVars, tailorVars, mailVars, outVars, fuel >>

\* handleRefineSearch
HandleRefineSearch ==
    /\ EditModalRendered
    /\ IF editDraft # None
       THEN /\ analysis' = Some(CommittedDraft(editDraft[1], history))
            /\ isEditModalOpen' = FALSE
            /\ HandleSearch(CommittedDraft(editDraft[1], history), timeFilter, jobType)
       ELSE UNCHANGED << analysis, isEditModalOpen, searches, lastRequest,
                         isSearching, error, fuel >>
    /\ lastOp' = << "refineSearch", "" >>
    /\ UNCHANGED << editDraft, history, openedWith >>
    /\ UNCHANGED << resumeText, isAnalyzing, jobs, timeFilter, jobType,
                    dropJobType, uploads >>
    /\ UNCHANGED << tailorVars, mailVars, outVars >>

\* Mutant: closing the modal applies the draft to the live analysis.
CancelEditApplying ==
    /\ EditModalRendered
    /\ isEditModalOpen' = FALSE
    /\ analysis' = editDraft
    /\ lastOp' = << "cancelEdit", "" >>
    /\ UNCHANGED << editDraft, history, openedWith >>
    /\ UNCHANGED << resumeText, isAnalyzing, isSearching, jobs, timeFilter, jobType,
                    dropJobType, error, uploads, searches, lastRequest >>
    /\ UNCHANGED << tailorVars, mailVars, outVars, fuel >>

\* Cancel, the X of the modal and its backdrop (lines 733, 748, 841)
CancelEdit ==
    /\ EditModalRendered
    /\ isEditModalOpen' = FALSE
    /\ lastOp' = << "cancelEdit", "" >>
    /\ UNCHANGED << editDraft, history, openedWith >>
    /\ UNCHANGED << coreVars, tailorVars, mailVars, outVars, fuel >>

EditStep ==
    \/ OpenEditModal
    \/ \E value \in Summaries : HandleUpdateDraft("summary", value)
    \/ \E s \in ModalSkillInputs : DraftAddSkill(s)
    \/ \E field \in {"summary", "skills"} : SaveField(field)
    \/ UndoField
    \/ HandleRefineSearch
    \/ CancelEdit

InitEdit ==
    /\ AfterUpload(StructureResume(<< "G", "o" >>, Empty), << SkGo >>)
    /\ fuel = [uploads |-> 0, searches |-> EditSearches, tailors |-> 0, mails |-> 0]

\* What goes on around an edit session: responses arrive, and the controls
\* of the page under the modal stay operable.
AroundEditStep ==
    \/ ChangeFilter("48h")
    \/ ChangeJobType("remote")
    \/ AddSkill(<< " ", "C", " " >>)
    \/ \E i \in DOMAIN searches : SearchResolved(i, "ok", << J1 >>)

NextEdit == EditStep \/ AroundEditStep

SpecEdit == InitEdit /\ [][NextEdit]_vars

(***************************************************************************)
(* Tailoring Coordinator: generate.                                        *)
(***************************************************************************)
\* The job cards, with their buttons, are rendered only with an analysis and
\* while no search is running (lines 593-605).
JobButtonsRendered(job) ==
    /\ analysis # None
    /\ ~isSearching
    /\ job \in Range(jobs)

\* Mutant: the tailor buttons are never disabled.
TailorButtonsNeverDisabled == TRUE
\* disabled={isGenerating !== null} on both tailor buttons (lines 664, 681)
TailorButtonsEnabled == isGenerating = None

\* `${job.link}-${type}` (line 138); the suffix fixes the kind, so the key
\* determines the pair.
GenerationKey(job, kind) == << job.link, kind >>

\* Mutant: the key is not cleared when the request resolves.
KeyKeptAfterGeneration(key) == key
\* What the finally of handleGenerateTailored leaves in isGenerating (line 152).
KeyAfterGeneration(key) == None

TailorError(kind) ==
    IF kind = "resume" THEN Some("Failed to generate tailored resume")
    ELSE Some("Failed to generate tailored coverLetter")

Pending(log) == {i \in DOMAIN log : log[i].st = "pending"}

\* How generateTailoredContent can end: with both documents, with the empty
\* object of its `response.text || "{}"` fallback (geminiService.ts:232), or
\* by throwing.
TailorOutcomes == {"ok", "empty", "failed"}

\* A tailoring request that has ended: only its origin and outcome remain.
Resolved(request, outcome) ==
    [origin |-> request.origin, link |-> "", company |-> << >>, kind |-> "",
     st |-> outcome]

\* String.prototype.replace(/\s+/g, '_'): each maximal run of whitespace
\* becomes one underscore, every other character is kept.
RECURSIVE ReplaceSpaceRuns(_)
ReplaceSpaceRuns(s) ==
    IF s = << >> THEN << >>
    ELSE IF IsSpace(Head(s))
         THEN IF Len(s) > 1 /\ IsSpace(s[2])
              THEN ReplaceSpaceRuns(Tail(s))
              ELSE << "_" >> \o ReplaceSpaceRuns(Tail(s))
         ELSE << Head(s) >> \o ReplaceSpaceRuns(Tail(s))

\* The artifact-type label of a file name (lines 143, 145, 347, 352)
FileLabel(kind) ==
    IF kind = "resume" THEN << "Tailored_Resume_" >> ELSE << "Cover_Letter_" >>

\* The file name handleGenerateTailored passes to downloadAsPDF (lines 143, 145)
GenerateFilename(kind, company) ==
    FileLabel(kind) \o ReplaceSpaceRuns(company) \o << ".pdf" >>

\* The file name handleSendMail passes to downloadAsPDF (lines 347, 352)
MailFilename(kind, company) == FileLabel(kind) \o company \o << ".pdf" >>

\* One call of downloadAsPDF: which document, under which name.
Download(artifact, filename) ==
    [effect |-> "download", artifact |-> artifact, filename |-> filename]

\* window.location.href = mailtoUrl (line 362)
MailLink(job) == [effect |-> "mailto", artifact |-> "", filename |-> << job.link >>]

\* Mutant: the document exported is the tailored resume whatever was asked.
ExportedResumeAlways(kind, company, outcome) ==
    IF outcome = "ok"
    THEN << Download("resume", GenerateFilename(kind, company)) >>
    ELSE << >>

\* Lines 140-146: what handleGenerateTailored hands to downloadAsPDF. With
\* the empty object the document is undefined and content.split (line 248)
\* throws before anything is saved.
Exported(kind, company, outcome) ==
    IF outcome = "ok"
    THEN << Download(kind, GenerateFilename(kind, company)) >>
    ELSE << >>

\* handleGenerateTailored up to its await
HandleGenerateTailored(job, kind) ==
    /\ JobButtonsRendered(job)
    /\ TailorButtonsEnabled
    /\ fuel.tailors > 0
    /\ fuel' = [fuel EXCEPT !.tailors = @ - 1]
    /\ isGenerating' = GenerationKey(job, kind)
    /\ tailors' = Append(tailors, [origin |-> "generate", link |-> job.link,
                                   company |-> job.company, kind |-> kind,
                                   st |-> "pending"])
    /\ lastOp' = << "generate", kind >>
    /\ UNCHANGED << coreVars, editVars, mailVars, outVars >>

\* handleGenerateTailored after its await
GenerateResolved(i, outcome) ==
    /\ tailors[i].origin = "generate"
    /\ tailors[i].st = "pending"
    /\ tailors' = [tailors EXCEPT ![i] = Resolved(@, outcome)]
    /\ effects' = Exported(tailors[i].kind, tailors[i].company, outcome)
    /\ error' = IF outcome = "ok" THEN error ELSE TailorError(tailors[i].kind)
    /\ isGenerating' = KeyAfterGeneration(isGenerating)
    /\ lastOp' = << "generateResolved", outcome >>
    /\ UNCHANGED << resumeText, isAnalyzing, isSearching, analysis, jobs, timeFilter,
                    jobType, dropJobType, uploads, searches, lastRequest >>
    /\ UNCHANGED << editVars, mailVars, expandedJobs, pdf, fuel >>

\* toggleJobExpansion (lines 156-166), the chevron of a job card (line 621)
ToggleJobExpansion(index) ==
    /\ index \in DOMAIN jobs
    /\ JobButtonsRendered(jobs[index])
    /\ expandedJobs' = IF index \in expandedJobs THEN expandedJobs \ {index}
                       ELSE expandedJobs \cup {index}
    /\ lastOp' = << "toggleJobExpansion", "" >>
    /\ UNCHANGED << effects, pdf >>
    /\ UNCHANGED << coreVars, editVars, tailorVars, mailVars, fuel >>

TailorStep ==
    \/ \E job \in Range(jobs), kind \in Kinds : HandleGenerateTailored(job, kind)
    \/ \E i \in DOMAIN tailors, outcome \in TailorOutcomes :
          GenerateResolved(i, outcome)

(***************************************************************************)
(* Tailoring Coordinator: sendApplicationEmail.                            *)
(***************************************************************************)
EmailOptionNames ==
    {"attachTailoredResume", "attachTailoredCoverLetter", "generateMailContent",
     "attachUploadedResume"}

MailError == Some("Failed to prepare email application")

EmailModalRendered == emailModalJob # None

\* line 342
NeedsTailoring(options) ==
    options.attachTailoredResume \/ options.attachTailoredCoverLetter

\* "Send Mail" on a job card (lines 696-698)
OpenEmailModal(job) ==
    /\ JobButtonsRendered(job)
    /\ job.contactEmail
    /\ emailModalJob' = Some(job)
    /\ lastOp' = << "openEmailModal", "" >>
    /\ UNCHANGED << emailOptions, isSendingMail, mailRun >>
    /\ UNCHANGED << coreVars, editVars, tailorVars, outVars, fuel >>

\* Cancel and the backdrop of the email modal (lines 866, 906)
CloseEmailModal ==
    /\ EmailModalRendered
    /\ emailModalJob' = None
    /\ lastOp' = << "closeEmailModal", "" >>
    /\ UNCHANGED << emailOptions, isSendingMail, mailRun >>
    /\ UNCHANGED << coreVars, editVars, tailorVars, outVars, fuel >>

\* A checkbox of the email modal (line 889)
ToggleEmailOption(name) ==
    /\ EmailModalRendered
    /\ emailOptions' = [emailOptions EXCEPT ![name] = ~@]
    /\ lastOp' = << "toggleEmailOption", "" >>
    /\ UNCHANGED << emailModalJob, isSendingMail, mailRun >>
    /\ UNCHANGED << coreVars, editVars, tailorVars, outVars, fuel >>

\* Lines 343-354: the tailored documents handleSendMail saves.
TailoredAttachments(job, options) ==
    (IF options.attachTailoredResume
     THEN << Download("resume", MailFilename("resume", job.company)) >>
     ELSE << >>)
    \o (IF options.attachTailoredCoverLetter
        THEN << Download("coverLetter", MailFilename("coverLetter", job.company)) >>
        ELSE << >>)

\* Lines 356-359
OriginalAttachment(options) ==
    IF options.attachUploadedResume
    THEN << Download("original", << "Original_Resume.pdf" >>) >>
    ELSE << >>

\* Mutant: the mail link is activated before the documents are saved.
MailHandedOffLinkFirst(job, options) ==
    /\ effects' = << MailLink(job) >> \o TailoredAttachments(job, options)
                     \o OriginalAttachment(options)
    /\ emailModalJob' = None
    /\ isSendingMail' = FALSE
    /\ mailRun' = None

\* Lines 343-368 once nothing is awaited any more: the documents are saved,
\* the mail link is activated, the modal closed, the flag cleared.
MailHandedOff(job, options) ==
    /\ effects' = TailoredAttachments(job, options) \o OriginalAttachment(options)
                     \o << MailLink(job) >>
    /\ emailModalJob' = None
    /\ isSendingMail' = FALSE
    /\ mailRun' = None

\* Mutant: the failure path of handleSendMail leaves the sending flag set.
MailFailedKeepingFlag ==
    /\ error' = MailError
    /\ effects' = << >>
    /\ isSendingMail' = TRUE
    /\ mailRun' = None
    /\ UNCHANGED emailModalJob

\* Mutant: the failure path of handleSendMail closes the email modal.
MailFailedClosingModal ==
    /\ error' = MailError
    /\ effects' = << >>
    /\ isSendingMail' = FALSE
    /\ mailRun' = None
    /\ emailModalJob' = None

\* Lines 364-368
MailFailed ==
    /\ error' = MailError
    /\ effects' = << >>
    /\ isSendingMail' = FALSE
    /\ mailRun' = None
    /\ UNCHANGED emailModalJob

\* Mutant: one tailoring request for each tailored attachment asked for.
TailoringRequestsPerToggle(options) ==
    (IF options.attachTailoredResume THEN << "tailor" >> ELSE << >>)
    \o (IF options.attachTailoredCoverLetter THEN << "tailor" >> ELSE << >>)

\* Lines 342-343: the tailoring requests a run issues once it gets there.
TailoringRequests(options) ==
    IF NeedsTailoring(options) THEN << "tailor" >> ELSE << >>

\* Lines 340-363 for the run with job and options: one tailoring request if
\* a tailored attachment is wanted, else straight to the mail link.
AfterCompose(job, options, left, requests) ==
    IF TailoringRequests(options) # << >>
    THEN /\ left.tailors > 0
         /\ fuel' = [left EXCEPT !.tailors = @ - 1]
         /\ tailors' = tailors \o
                [k \in 1..Len(TailoringRequests(options)) |->
                   [origin |-> "mail", link |-> job.link, company |-> job.company,
                    kind |-> "", st |-> "pending"]]
         /\ mailRun' = Some([job |-> job, options |-> options, stage |-> "tailoring",
                              requests |-> requests \o TailoringRequests(options)])
         /\ isSendingMail' = TRUE
         /\ effects' = << >>
         /\ UNCHANGED emailModalJob
    ELSE /\ MailHandedOff(job, options)
         /\ fuel' = left
         /\ UNCHANGED tailors

\* handleSendMail up to its first await
HandleSendMail ==
    /\ EmailModalRendered
    /\ ~isSendingMail
    /\ fuel.mails > 0
    /\ IF emailOptions.generateMailContent
       THEN /\ mailRun' = Some([job |-> emailModalJob[1], options |-> emailOptions,
                                stage |-> "composing", requests |-> << "compose" >>])
            /\ isSendingMail' = TRUE
            /\ effects' = << >>
            /\ fuel' = [fuel EXCEPT !.mails = @ - 1]
            /\ UNCHANGED << emailModalJob, tailors >>
       ELSE AfterCompose(emailModalJob[1], emailOptions,
                         [fuel EXCEPT !.mails = @ - 1], << >>)
    /\ lastOp' = << "sendMail", "" >>
    /\ UNCHANGED << emailOptions, isGenerating, expandedJobs, pdf >>
    /\ UNCHANGED << coreVars, editVars >>

\* generateEmailContent resolved (lines 334-337)
ComposeResolved(ok) ==
    /\ mailRun # None
    /\ mailRun[1].stage = "composing"
    /\ IF ok
       THEN /\ AfterCompose(mailRun[1].job, mailRun[1].options, fuel, mailRun[1].requests)
            /\ UNCHANGED error
       ELSE /\ MailFailed
            /\ UNCHANGED << tailors, fuel >>
    /\ lastOp' = << "composeResolved", IF ok THEN "ok" ELSE "failed" >>
    /\ UNCHANGED << emailOptions, isGenerating, expandedJobs, pdf >>
    /\ UNCHANGED << resumeText, isAnalyzing, isSearching, analysis, jobs, timeFilter,
                    jobType, dropJobType, uploads, searches, lastRequest >>
    /\ UNCHANGED editVars

\* generateTailoredContent of handleSendMail resolved (lines 343-363)
MailTailorResolved(i, outcome) ==
    /\ tailors[i].origin = "mail"
    /\ tailors[i].st = "pending"
    /\ mailRun # None
    /\ tailors' = [tailors EXCEPT ![i] = Resolved(@, outcome)]
    /\ IF outcome = "ok"
       THEN /\ MailHandedOff(mailRun[1].job, mailRun[1].options)
            /\ UNCHANGED error
       ELSE MailFailed
    /\ lastOp' = << "mailTailorResolved", outcome >>
    /\ UNCHANGED << emailOptions, isGenerating, expandedJobs, pdf, fuel >>
    /\ UNCHANGED << resumeText, isAnalyzing, isSearching, analysis, jobs, timeFilter,
                    jobType, dropJobType, uploads, searches, lastRequest >>
    /\ UNCHANGED editVars

MailStep ==
    \/ \E job \in Range(jobs) : OpenEmailModal(job)
    \/ CloseEmailModal
    \/ \E name \in EmailOptionNames \ {"attachUploadedResume"} :
          ToggleEmailOption(name)
    \/ HandleSendMail
    \/ \E ok \in BOOLEAN : ComposeResolved(ok)
    \/ \E i \in DOMAIN tailors, outcome \in TailorOutcomes :
          MailTailorResolved(i, outcome)

\* The state after the search of a successful upload has come back with two
\* jobs and a change of the time filter has started the next search.
InitTailor ==
    /\ resumeText = << "G", "o" >>
    /\ isAnalyzing = FALSE
    /\ isSearching = TRUE
    /\ isGenerating = None
    /\ analysis = Some(AnalyzeResume(<< "G", "o" >>, << SkGo >>))
    /\ jobs = << J2, J1 >>
    /\ timeFilter = "48h"
    /\ jobType = "all"
    /\ dropJobType = "all"
    /\ isEditModalOpen = FALSE
    /\ editDraft = None
    /\ history = << >>
    /\ emailModalJob = None
    /\ emailOptions = DefaultEmailOptions
    /\ isSendingMail = FALSE
    /\ error = None
    /\ uploads = << Analyzed([docx |-> FALSE, text |-> << "G", "o" >>], << SkGo >>) >>
    /\ searches = << [st |-> "ok", result |-> << J2, J1 >>],
                     [st |-> "pending", result |-> << >>] >>
    /\ lastRequest = Some(SearchRequest(AnalyzeResume(<< "G", "o" >>, << SkGo >>),
                                        "48h", "all"))
    /\ tailors = << >>
    /\ mailRun = None
    /\ openedWith = None
    /\ expandedJobs = {}
    /\ effects = << >>
    /\ pdf = None
    /\ lastOp = << "changeFilter", "48h" >>
    /\ fuel = [uploads |-> 0, searches |-> 0, tailors |-> MaxTailors,
               mails |-> MaxMailRuns]

\* What goes on around tailoring: the job cards are hidden until the
\* response of the running search arrives.
AroundTailorStep ==
    \E i \in DOMAIN searches, results \in {<< J1 >>, << J2, J1 >>} :
        SearchResolved(i, "ok", results)

NextTailor == TailorStep \/ MailStep \/ AroundTailorStep

SpecTailor == InitTailor /\ [][NextTailor]_vars

(***************************************************************************)
(* The email hand-off on its own: a board with one job, the email modal    *)
(* with every checkbox, and the runs of handleSendMail.                    *)
(***************************************************************************)
InitMail ==
    /\ AfterUpload(StructureResume(<< "G", "o" >>, Empty), << SkGo >>)
    /\ fuel = [uploads |-> 0, searches |-> 0, tailors |-> LiveTailors,
               mails |-> MaxMailRuns]

NextMail ==
    \/ \E i \in DOMAIN searches : SearchResolved(i, "ok", << J1 >>)
    \/ OpenEmailModal(J1)
    \/ CloseEmailModal
    \/ \E name \in EmailOptionNames : ToggleEmailOption(name)
    \/ HandleSendMail
    \/ \E ok \in BOOLEAN : ComposeResolved(ok)
    \/ \E i \in DOMAIN tailors, outcome \in TailorOutcomes :
          MailTailorResolved(i, outcome)

SpecMail == InitMail /\ [][NextMail]_vars

(***************************************************************************)
(* Properties.                                                             *)
(***************************************************************************)

\* C1: search supersession.  When search A resolves successfully after a
\* search B that was issued later than A has already resolved successfully
\* and the job list shows B's result, the job list still equals B's result.
C1_SearchSupersession ==
    [][\A a, b \in DOMAIN searches :
          ( /\ a < b
            /\ searches[b].st = "ok"
            /\ jobs = searches[b].result
            /\ searches[a].st = "pending"
            /\ searches'[a].st = "ok" )
          => jobs' = searches[b].result]_vars

\* C2: at most one generateTailoredContent request is in flight, counting
\* those of handleGenerateTailored and those of handleSendMail.
C2_OneTailoringInFlight == Cardinality(Pending(tailors)) <= 1

\* C3: while the generation key is non-empty no generate call takes effect:
\* no step is a generate call (so none sets an error), no tailoring request is
\* issued on behalf of generate, and the key keeps its value until the
\* running generation resolves.
C3_GenerateRejectedWhileBusy ==
    [][isGenerating # None =>
          /\ \A i \in DOMAIN tailors' :
                i > Len(tailors) => tailors'[i].origin # "generate"
          /\ lastOp'[1] # "generate"
          /\ isGenerating' # isGenerating => lastOp'[1] = "generateResolved"
          /\ isGenerating' \in {isGenerating, None}]_vars

\* C3 witness: a generation is in flight while the card of another job is
\* on screen and a further tailoring request could still be issued.
C3_Witness ==
    /\ isGenerating = GenerationKey(J2, "resume")
    /\ JobButtonsRendered(J1)
    /\ fuel.tailors > 0

\* C4: the generation key names the job and kind of the generate request for
\* as long as that request is in flight, and is empty in the state in which
\* the request has just resolved, with success or with failure.
C4_GenerationLockReleased ==
    /\ \A i \in Pending(tailors) :
          tailors[i].origin = "generate" =>
              isGenerating = << tailors[i].link, tailors[i].kind >>
    /\ lastOp[1] = "generateResolved" => isGenerating = None

\* C4 witness: a generate request has just failed and the key is empty.
C4_Witness ==
    /\ lastOp = << "generateResolved", "failed" >>
    /\ isGenerating = None
    /\ error = TailorError("coverLetter")

\* C5: the skills of the live analysis hold no two equal entries.
C5_SkillsUnique == analysis # None => NoDuplicates(analysis[1].skills)

\* C6: undo with one history entry changes neither draft nor history; undo
\* with N > 1 entries makes the draft entry N-1 and the history its first
\* N-1 entries.
C6_UndoBounds ==
    [][(lastOp'[1] = "undoField" /\ EditModalRendered) =>
          IF Len(history) = 1
          THEN editDraft' = editDraft /\ history' = history
          ELSE Len(history) > 1 =>
                  /\ editDraft' = Some(history[Len(history) - 1])
                  /\ history' = SubSeq(history, 1, Len(history) - 1)]_vars

\* C6 witness: an undo on three entries has just restored the second, which
\* differs from the analysis the session was opened with.
C6_Witness ==
    /\ lastOp = << "undoField", "restored" >>
    /\ Len(history) = 2
    /\ editDraft = Some(history[2])
    /\ history[2] # history[1]

\* C7: while the edit modal is open the history has at least one entry and
\* its first entry is the analysis as it was when the modal was opened.
C7_HistorySeed ==
    isEditModalOpen => Len(history) >= 1 /\ Some(history[1]) = openedWith

\* C7 witness: the modal is open after a snapshot and an undo, and the live
\* analysis has changed since the modal was opened.
C7_Witness ==
    /\ isEditModalOpen
    /\ lastOp = << "undoField", "restored" >>
    /\ analysis # openedWith
    /\ Some(history[1]) = openedWith

\* C8: a field update, a snapshot or an undo leaves the live analysis and the
\* job list as they are and issues no search; a field update also leaves the
\* history as it is.
C8_DraftIsolation ==
    [][/\ lastOp'[1] \in {"updateDraft", "saveField", "undoField"} =>
             /\ analysis' = analysis
             /\ jobs' = jobs
             /\ searches' = searches
             /\ lastRequest' = lastRequest
       /\ lastOp'[1] = "updateDraft" => history' = history]_vars

\* C8 witness: a field update has just made the draft differ from the live
\* analysis, which is still the one the modal was opened with.
C8_Witness ==
    /\ isEditModalOpen
    /\ lastOp = << "updateDraft", "skills" >>
    /\ editDraft # analysis
    /\ analysis = openedWith
    /\ Len(history) = 2

\* C9: cancelling closes the modal, leaves the live analysis, the job list
\* and both filters as they are and issues no search.
C9_CancelLeavesProfile ==
    [][lastOp'[1] = "cancelEdit" =>
          /\ ~isEditModalOpen'
          /\ analysis' = analysis
          /\ jobs' = jobs
          /\ timeFilter' = timeFilter
          /\ jobType' = jobType
          /\ searches' = searches
          /\ lastRequest' = lastRequest]_vars

\* C9 witness: the modal has just been cancelled after an edit and a snapshot.
C9_Witness ==
    /\ lastOp = << "cancelEdit", "" >>
    /\ ~isEditModalOpen
    /\ Len(history) = 2
    /\ editDraft # analysis
    /\ analysis = openedWith

\* C10: the commit makes the live analysis the draft as it is at that moment,
\* closes the modal and issues exactly one search, with that analysis and
\* the filters selected at that moment.
C10_CommitAppliesDraft ==
    [][lastOp'[1] = "refineSearch" =>
          /\ analysis' = editDraft
          /\ ~isEditModalOpen'
          /\ Len(searches') = Len(searches) + 1
          /\ \A i \in DOMAIN searches : searches'[i] = searches[i]
          /\ searches'[Len(searches')].st = "pending"
          /\ lastRequest' = Some(SearchRequest(editDraft[1], timeFilter, jobType))]_vars

\* C10 witness: a draft with an update that was never snapshotted has just been
\* committed after the filters were changed.
C10_Witness ==
    /\ lastOp = << "refineSearch", "" >>
    /\ ~isEditModalOpen
    /\ analysis = editDraft
    /\ analysis[1] # history[Len(history)]
    /\ timeFilter = "48h"
    /\ lastRequest = Some(SearchRequest(analysis[1], "48h", "all"))

\* C11: whenever the edit modal is closed the history is empty and there is
\* no draft.
C11_ClosedSessionHoldsNothing ==
    ~isEditModalOpen => (history = << >> /\ editDraft = None)

\* C17: a search that fails, because the request fails or because its response
\* cannot be parsed, sets an error and leaves the job list as it was.
C17_FailedSearchKeepsJobs ==
    [][\A i \in DOMAIN searches :
          ( /\ searches[i].st = "pending"
            /\ searches'[i].st \in {"failed", "unparsable"} )
          => (error' # None /\ jobs' = jobs)]_vars

\* C18: in the state right after a search resolves successfully the job list
\* is that search's result and there is no error.
C18_SuccessClearsError ==
    [][\A i \in DOMAIN searches :
          (searches[i].st = "pending" /\ searches'[i].st = "ok")
          => (jobs' = searches'[i].result /\ error' = None)]_vars

\* C19: the searching flag is set in every state in which some search request
\* is in flight.
C19_SearchingWhileInFlight ==
    (\E i \in DOMAIN searches : searches[i].st = "pending") => isSearching

\* s occurs in t as a contiguous run of characters, letter case ignored.
OccursIgnoringCase(s, t) ==
    \E k \in 0..(Len(t) - Len(s)) :
        \A j \in 1..Len(s) : LowerChar(t[k + j]) = LowerChar(s[j])

\* C16: when analyzeResume returns, every skill of the result occurs in the
\* text it was called with, letter case ignored, and the result is the
\* gateway's skills that so occur, in the gateway's order.
C16_SkillsVerbatim ==
    [][\A i \in DOMAIN uploads :
          (uploads[i].stage = "analyzing" /\ uploads'[i].stage = "done") =>
              LET given == uploads'[i].gateway
                  text == uploads[i].text
                  kept == analysis'[1].skills
              IN /\ \A k \in DOMAIN kept : OccursIgnoringCase(kept[k], text)
                 /\ kept = SelectSeq(given, LAMBDA s : OccursIgnoringCase(s, text))]_vars

\* C16 witness: the gateway named a skill that is in the text and one that is
\* not, and only the first is in the analysis.
C16_Witness ==
    /\ lastOp = << "upload", "done" >>
    /\ \E i \in DOMAIN uploads :
          /\ uploads[i].stage = "done"
          /\ uploads[i].text = << "G", "O", " ", "C" >>
          /\ uploads[i].gateway = << SkC, << "X" >> >>
    /\ analysis = Some([skills |-> << SkC >>, summary |-> "s0"])

\* C13: when the analysis of a run fails after its structuring succeeded, the
\* resume text stays the structured text (of that run, when no other run
\* was started), the analysis stays what it was, no search is issued, the
\* upload error is set and the analyzing flag is cleared.
C13_AnalysisFailureKeepsText ==
    [][\A i \in DOMAIN uploads :
          (uploads[i].stage = "analyzing" /\ uploads'[i].stage = "failed") =>
              /\ resumeText' = resumeText
              /\ Len(uploads) = 1 => resumeText' = uploads[i].text
              /\ analysis' = analysis
              /\ searches' = searches
              /\ lastRequest' = lastRequest
              /\ isSearching' = isSearching
              /\ error' = UploadError
              /\ isAnalyzing' = FALSE]_vars

\* C13 witness: the analysis has just failed; the structured text is kept,
\* there is no analysis and no search, and the error is set.
C13_Witness ==
    /\ lastOp = << "upload", "analysisFailed" >>
    /\ resumeText = << "G", "O", " ", "C" >>
    /\ analysis = None
    /\ searches = << >>
    /\ error = UploadError
    /\ ~isAnalyzing

\* The text has no character other than white space.
OnlySpaces(s) == \A k \in DOMAIN s : IsSpace(s[k])

\* What a run i leaves when its extracted text is blank.
BlankOutcome(i) ==
    /\ uploads'[i].stage = "failed"
    /\ resumeText' = resumeText
    /\ analysis' = analysis
    /\ jobs' = jobs
    /\ searches' = searches
    /\ lastRequest' = lastRequest
    /\ error' = UploadError
    /\ isAnalyzing' = FALSE

\* C14: a run whose extracted text is empty or white space only ends without
\* a structuring, analysis or search request; resume text, analysis and job
\* list stay as they were, the upload error is set and the analyzing flag
\* ends cleared.
C14_BlankTextFailsEarly ==
    [][\A i \in DOMAIN uploads :
          /\ ( /\ uploads[i].stage = "reading"
               /\ ~uploads[i].docx
               /\ OnlySpaces(uploads[i].raw)
               /\ uploads'[i] # uploads[i] ) => BlankOutcome(i)
          /\ ( /\ uploads[i].stage = "extracting"
               /\ uploads'[i] # uploads[i]
               /\ lastOp' = << "upload", "extractionError" >> ) => BlankOutcome(i)]_vars

\* C14 witness: a text file holding one space has just been read.
C14_Witness ==
    /\ lastOp = << "upload", "extractionError" >>
    /\ Len(uploads) = 1
    /\ ~uploads[1].docx
    /\ uploads[1].stage = "failed"
    /\ resumeText = Empty
    /\ analysis = None
    /\ searches = << >>
    /\ error = UploadError
    /\ ~isAnalyzing

\* C15: when the structuring request of a run fails, the run takes the raw
\* text as the resume text, goes on to the analysis and sets no error.
C15_StructuringFallback ==
    [][\A i \in DOMAIN uploads :
          ( /\ uploads[i].stage = "structuring"
            /\ uploads'[i] # uploads[i]
            /\ lastOp' = << "upload", "structuringFailed" >> )
          => ( /\ uploads'[i].stage = "analyzing"
               /\ resumeText' = uploads[i].raw
               /\ error' = error )]_vars

\* C12: once a run started later has written the resume text, or the
\* analysis, the structuring response, or the analysis response, of a run
\* started earlier does not overwrite it.
C12_UploadSupersession ==
    [][\A i, j \in DOMAIN uploads :
          i < j =>
              /\ ( /\ uploads[j].stage \in {"analyzing", "done"}
                   /\ uploads[i].stage = "structuring"
                   /\ uploads'[i].stage = "analyzing" ) => resumeText' = resumeText
              /\ ( /\ uploads[j].stage = "done"
                   /\ uploads[i].stage = "analyzing"
                   /\ uploads'[i].stage = "done" ) => analysis' = analysis]_vars

(***************************************************************************)
(* The whole application under the assumption that every asynchronous call *)
(* it awaits (file read, gateway requests) eventually resolves.            *)
(***************************************************************************)
\* An awaited call resolves, with success or with failure.
ResolveStep ==
    \/ \E i \in DOMAIN uploads, ok \in BOOLEAN :
          StructureResolved(i, ok, Empty)
    \/ \E i \in DOMAIN uploads, ok \in BOOLEAN :
          AnalyzeResolved(i, ok, IF ok THEN << SkGo >> ELSE << >>)
    \/ \E i \in DOMAIN searches : SearchResolved(i, "ok", << J1 >>)
    \/ \E i \in DOMAIN searches : SearchResolved(i, "failed", << >>)
    \/ \E i \in DOMAIN tailors, outcome \in TailorOutcomes :
          GenerateResolved(i, outcome)
    \/ \E ok \in BOOLEAN : ComposeResolved(ok)
    \/ \E i \in DOMAIN tailors, outcome \in TailorOutcomes :
          MailTailorResolved(i, outcome)

\* What the user does.
UserStep ==
    \/ ChangeFilter("48h")
    \/ \E kind \in Kinds : HandleGenerateTailored(J1, kind)
    \/ OpenEmailModal(J1)
    \/ CloseEmailModal
    \/ HandleSendMail

\* The upload run is under way; it issues one search, the filter change
\* the others.
InitLive ==
    /\ FirstRunStructuring
    /\ fuel = [uploads |-> 0, searches |-> UploadSearches + 1,
               tailors |-> LiveTailors, mails |-> MaxMailRuns]

NextLive == ResolveStep \/ UserStep

SpecLive == InitLive /\ [][NextLive]_vars /\ WF_vars(ResolveStep)

\* Some awaited call has not resolved yet.
InFlight ==
    \/ \E i \in DOMAIN uploads : uploads[i].stage \notin {"done", "failed"}
    \/ Pending(searches) # {}
    \/ Pending(tailors) # {}
    \/ mailRun # None

FlagsCleared ==
    /\ ~isAnalyzing
    /\ ~isSearching
    /\ ~isSendingMail
    /\ isGenerating = None

\* C20: if every awaited call eventually resolves, then from any state with a
\* call in flight the application reaches a state with no call in flight in
\* which the analyzing, searching and sending flags and the generation key
\* are all cleared.
C20_NoPermanentLoading == InFlight ~> (~InFlight /\ FlagsCleared)

\* C20 witness: the last call in flight has just failed and every flag is
\* cleared.
C20_Witness ==
    /\ lastOp = << "mailTailorResolved", "failed" >>
    /\ ~InFlight
    /\ FlagsCleared
    /\ error = MailError

(***************************************************************************)
(* The filter operations called as operations, whatever is on screen, with *)
(* an upload pipeline that brings the analysis into being.                 *)
(***************************************************************************)
\* The upload run goes on, with one answer of each gateway call.
PlainUploadStep ==
    \/ \E i \in DOMAIN uploads : StructureResolved(i, TRUE, Empty)
    \/ \E i \in DOMAIN uploads, ok \in BOOLEAN :
          AnalyzeResolved(i, ok, IF ok THEN << SkGo >> ELSE << >>)

PlainSearchStep ==
    \E i \in DOMAIN searches :
        \/ SearchResolved(i, "ok", << J1 >>)
        \/ SearchResolved(i, "failed", << >>)

\* The upload run is under way; it issues one search, a filter change the
\* others.
InitOperations ==
    /\ FirstRunStructuring
    /\ fuel = [uploads |-> 0, searches |-> UploadSearches + 1,
               tailors |-> 0, mails |-> 0]

NextOperations ==
    \/ PlainUploadStep
    \/ PlainSearchStep
    \/ StartOver
    \/ \E f \in {"24h", "48h"} : ChangeFilterHandler(f)
    \/ \E t \in {"all", "remote"} : ChangeJobTypeHandler(t)

SpecOperations == InitOperations /\ [][NextOperations]_vars

\* C21: a filter change stores the new value and leaves the other filter
\* alone; without an analysis it issues no search and leaves the job list
\* alone; with an analysis it issues one search, with that analysis, the new
\* value of the changed filter and the value of the other filter.
C21_FilterChangeSearches ==
    [][lastOp'[1] \in {"changeFilter", "changeJobType"} =>
          /\ lastOp'[1] = "changeFilter" =>
                (timeFilter' = lastOp'[2] /\ jobType' = jobType)
          /\ lastOp'[1] = "changeJobType" =>
                (jobType' = lastOp'[2] /\ timeFilter' = timeFilter)
          /\ analysis' = analysis
          /\ jobs' = jobs
          /\ analysis = None =>
                (searches' = searches /\ lastRequest' = lastRequest)
          /\ analysis # None =>
                /\ Len(searches') = Len(searches) + 1
                /\ \A i \in DOMAIN searches : searches'[i] = searches[i]
                /\ searches'[Len(searches')].st = "pending"
                /\ lastRequest' =
                      Some(SearchRequest(analysis[1], timeFilter', jobType'))]_vars

\* C21 witness: with an analysis and the time filter at 48h the job type has
\* just been changed to remote, and the search carries both.
C21_Witness ==
    /\ lastOp = << "changeJobType", "remote" >>
    /\ analysis # None
    /\ timeFilter = "48h"
    /\ jobType = "remote"
    /\ Len(searches) = 2
    /\ lastRequest = Some(SearchRequest(analysis[1], "48h", "remote"))

(***************************************************************************)
(* Starting over: the board after a first upload, from which the user can  *)
(* change the filters, click Upload New and drop another file.             *)
(***************************************************************************)
TextFile == [docx |-> FALSE, raw |-> << "G", "o" >>]

InitRestart ==
    /\ AfterUpload(<< "G", "o" >>, << SkGo >>)
    /\ fuel = [uploads |-> MaxUploads, searches |-> MaxUploads + 1,
               tailors |-> 0, mails |-> 0]

NextRestart ==
    \/ Drop(TextFile)
    \/ \E i \in DOMAIN uploads : OnLoad(i)
    \/ PlainUploadStep
    \/ PlainSearchStep
    \/ StartOver
    \/ \E f \in TimeFilters : ChangeFilter(f)
    \/ \E t \in JobTypes : ChangeJobType(t)

SpecRestart == InitRestart /\ [][NextRestart]_vars

\* C22: the search that a run issues when its analysis succeeds carries that
\* analysis and the time filter and the job type selected at that moment.
C22_UploadSearchUsesCurrentFilters ==
    [][\A i \in DOMAIN uploads :
          (uploads[i].stage = "analyzing" /\ uploads'[i].stage = "done") =>
              lastRequest' = Some(SearchRequest(analysis'[1], timeFilter, jobType))]_vars


(***************************************************************************)
(* C25: an accepted generate(job, kind) whose tailoring request comes back *)
(* with the documents exports exactly one document, the one matching kind; *)
(* when the request fails (it throws, or comes back without documents) it  *)
(* exports nothing and sets the error message for that kind.               *)
(***************************************************************************)
C25_GenerateExportsMatchingKind ==
    [][ \A i \in DOMAIN tailors :
          ( /\ tailors[i].origin = "generate"
            /\ tailors[i].st = "pending"
            /\ tailors'[i].st # "pending" )
          => IF tailors'[i].st = "ok"
             THEN /\ Len(effects') = 1
                  /\ effects'[1].effect = "download"
                  /\ effects'[1].artifact = tailors[i].kind
             ELSE /\ effects' = << >>
                  /\ error' = TailorError(tailors[i].kind)
                  /\ TailorError("resume") # TailorError("coverLetter") ]_vars

C25_Witness ==
    /\ lastOp = << "generateResolved", "ok" >>
    /\ Len(effects) = 1
    /\ effects[1].artifact = "coverLetter"

(***************************************************************************)
(* C29: every exported tailored-artifact file name, from generate or from  *)
(* sendApplicationEmail, is the artifact-type label followed by the company*)
(* name with each maximal run of non-alphanumeric characters replaced by a *)
(* single separator.                                                       *)
(***************************************************************************)
C29_FilenamesCollapseNonAlphanumerics ==
    LET Alphanumeric(c) == c \in {"A", "B", "C", "o"}
        Collapsed(s) ==
            LET kept == [k \in 1..Len(s) |->
                           IF Alphanumeric(s[k]) THEN s[k]
                           ELSE IF k > 1 /\ ~Alphanumeric(s[k - 1]) THEN ""
                           ELSE "_"]
            IN  SelectSeq(kept, LAMBDA c : c # "")
    IN  \A k \in DOMAIN effects :
          (effects[k].effect = "download" /\ effects[k].artifact \in Kinds)
          => \E job \in {J1, J2} :
                effects[k].filename
                  = FileLabel(effects[k].artifact) \o Collapsed(job.company)
                      \o << ".pdf" >>


\* Steps of handleSendMail, and the run one of them ends.
MailOps == {"sendMail", "composeResolved", "mailTailorResolved"}
RequestsOf(requests, request) ==
    Cardinality({k \in DOMAIN requests : requests[k] = request})

(***************************************************************************)
(* C23, as stated: a run of sendApplicationEmail that ends has issued      *)
(* exactly one tailoring request if a tailored-attachment toggle was set   *)
(* and none otherwise, and exactly one composeEmail request if             *)
(* generateMailContent was set and none otherwise.                         *)
(***************************************************************************)
C23_RequestsPerRun ==
    [][ (lastOp'[1] \in MailOps /\ mailRun' = None)
        => LET options == IF mailRun = None THEN emailOptions
                          ELSE mailRun[1].options
               requests == IF mailRun = None THEN << >> ELSE mailRun[1].requests
           IN  /\ RequestsOf(requests, "tailor")
                    = (IF options.attachTailoredResume
                          \/ options.attachTailoredCoverLetter
                       THEN 1 ELSE 0)
               /\ RequestsOf(requests, "compose")
                    = (IF options.generateMailContent THEN 1 ELSE 0) ]_vars

(***************************************************************************)
(* C23, amended: every run issues exactly one composeEmail request if      *)
(* generateMailContent was set and none otherwise; a run that ends without *)
(* its composeEmail request having failed has issued exactly one tailoring *)
(* request if a tailored-attachment toggle was set and none otherwise; a   *)
(* run whose composeEmail request fails issues no tailoring request.       *)
(***************************************************************************)
C23_RequestsPerRunPastCompose ==
    [][ lastOp'[1] \in MailOps
        => LET options == IF mailRun = None THEN emailOptions
                          ELSE mailRun[1].options
               before == IF mailRun = None THEN << >> ELSE mailRun[1].requests
               after == IF mailRun' = None THEN before ELSE mailRun'[1].requests
               wanted == options.attachTailoredResume
                           \/ options.attachTailoredCoverLetter
           IN  /\ Len(tailors') - Len(tailors)
                    = RequestsOf(after, "tailor") - RequestsOf(before, "tailor")
               /\ RequestsOf(after, "compose")
                    = (IF options.generateMailContent THEN 1 ELSE 0)
               /\ mailRun' = None
                    => RequestsOf(after, "tailor")
                         = (IF wanted /\ lastOp' # << "composeResolved", "failed" >>
                            THEN 1 ELSE 0) ]_vars

C23_Witness ==
    /\ mailRun # None
    /\ mailRun[1].options.attachTailoredResume
    /\ mailRun[1].options.attachTailoredCoverLetter
    /\ mailRun[1].options.generateMailContent
    /\ mailRun[1].requests = << "compose", "tailor" >>
    /\ Cardinality({i \in DOMAIN tailors : tailors[i].origin = "mail"}) = 1


(***************************************************************************)
(* C24: when a step of sendApplicationEmail fails, the error is set, the   *)
(* email modal keeps the job it had, no mail link is activated and the     *)
(* sending flag is cleared; a step of sendApplicationEmail closes the      *)
(* modal only when it activates the mail link.                             *)
(***************************************************************************)
MailLinkActivated(done) == \E k \in DOMAIN done : done[k].effect = "mailto"

C24_MailFailureKeepsSession ==
    [][ /\ ( \/ lastOp' = << "composeResolved", "failed" >>
             \/ lastOp'[1] = "mailTailorResolved" /\ lastOp'[2] # "ok" )
           => /\ error' = MailError
              /\ emailModalJob' = emailModalJob
              /\ ~MailLinkActivated(effects')
              /\ ~isSendingMail'
        /\ (lastOp'[1] \in MailOps /\ emailModalJob' # emailModalJob)
           => /\ emailModalJob' = None
              /\ MailLinkActivated(effects')
              /\ effects'[Len(effects')].effect = "mailto" ]_vars

C24_Witness ==
    /\ lastOp = << "mailTailorResolved", "empty" >>
    /\ emailModalJob = Some(J1)
    /\ error = MailError
    /\ ~isSendingMail
    /\ effects = << >>


(***************************************************************************)
(* C30: after addSkill(s) with trim(s) non-empty on an existing analysis   *)
(* the skills contain trim(s) exactly once, the skills present before keep *)
(* their relative order (a new skill comes last, one already present keeps *)
(* its place), and exactly one search is issued, with the updated analysis *)
(* and the current filters.                                                *)
(***************************************************************************)
C30_AddSkillAppendsOnce ==
    [][ lastOp' = << "addSkill", "added" >>
        => LET old == analysis[1].skills
               new == analysis'[1].skills
               \* the distinct entries of a list, in order of first occurrence
               Order(seq) ==
                   LET firsts == {k \in DOMAIN seq :
                                     \A j \in 1..(k - 1) : seq[j] # seq[k]}
                       Nth(n) == CHOOSE k \in firsts :
                                     Cardinality({j \in firsts : j < k}) = n - 1
                   IN  [n \in 1..Cardinality(firsts) |-> seq[Nth(n)]]
           IN  /\ analysis # None
               /\ \E s \in SkillInputs :
                     LET t == Trim(s)
                     IN  /\ t # Empty
                         /\ Cardinality({k \in DOMAIN new : new[k] = t}) = 1
                         /\ IF t \in Range(old)
                            THEN Order(new) = Order(old)
                            ELSE Order(new) = Append(Order(old), t)
               /\ analysis'[1].summary = analysis[1].summary
               /\ timeFilter' = timeFilter /\ jobType' = jobType
               /\ Len(searches') = Len(searches) + 1
               /\ \A i \in DOMAIN searches : searches'[i] = searches[i]
               /\ searches'[Len(searches')].st = "pending"
               /\ lastRequest'
                    = Some(SearchRequest(analysis'[1], timeFilter, jobType)) ]_vars

\* C30 witness: a skill not yet present was added behind the two that were.
C30_Witness ==
    /\ lastOp = << "addSkill", "added" >>
    /\ analysis # None
    /\ analysis[1].skills = << SkGo, SkGoLower, << "C" >> >>
    /\ lastRequest = Some(SearchRequest(analysis[1], timeFilter, jobType))


(***************************************************************************)
(* The whole page: a board whose first search is in flight, on which the   *)
(* skills, the filters, the edit session, the job cards and the email      *)
(* modal are all operated, each kind of request at most a few times.       *)
(***************************************************************************)
InitFrame ==
    /\ AfterUpload(StructureResume(<< "G", "o" >>, Empty), << SkGo >>)
    /\ fuel = [uploads |-> 0, searches |-> BoardSearches, tailors |-> LiveTailors,
               mails |-> MaxMailRuns]

NextFrame ==
    \/ \E i \in DOMAIN searches :
        \/ SearchResolved(i, "ok", << J1 >>)
        \/ SearchResolved(i, "unparsable", << >>)
        \/ SearchResolved(i, "failed", << >>)
    \/ ChangeFilter("48h")
    \/ ChangeJobType("remote")
    \/ AddSkill(<< " ", "C", " " >>)
    \/ RemoveSkill(SkGo)
    \/ StartOver
    \/ OpenEditModal
    \/ HandleUpdateDraft("summary", "s1")
    \/ SaveField("summary")
    \/ HandleRefineSearch
    \/ CancelEdit
    \/ HandleGenerateTailored(J1, "resume")
    \/ \E i \in DOMAIN tailors, outcome \in TailorOutcomes :
          GenerateResolved(i, outcome)
    \/ OpenEmailModal(J1)
    \/ HandleSendMail
    \/ \E ok \in BOOLEAN : ComposeResolved(ok)
    \/ \E i \in DOMAIN tailors, outcome \in TailorOutcomes :
          MailTailorResolved(i, outcome)
    \/ \E index \in DOMAIN jobs : ToggleJobExpansion(index)

SpecFrame == InitFrame /\ [][NextFrame]_vars

(***************************************************************************)
(* C26: the job list changes only in a step in which a search resolves     *)
(* successfully or the user starts over; adding or removing a skill, a     *)
(* filter change, the edit-session operations, generate,                   *)
(* sendApplicationEmail, toggling a job's expansion and a search that      *)
(* fails (its request fails or its response cannot be parsed) leave it as  *)
(* it was.                                                                 *)
(***************************************************************************)
C26_JobListFrame ==
    [][ jobs' # jobs
        => \/ lastOp'[1] = "startOver"
           \/ \E i \in DOMAIN searches :
                 searches[i].st = "pending" /\ searches'[i].st = "ok" ]_vars


(***************************************************************************)
(* Document Renderer: downloadAsPDF.  Vertical positions are kept doubled, *)
(* so that the 5.5 of a text row is the integer 11.                        *)
(***************************************************************************)
UpperLetters == << "A", "B", "C", "D", "E", "F", "G", "H", "I", "J", "K", "L", "M", "N", "O", "P", "Q", "R", "S", "T", "U", "V", "W", "X", "Y", "Z" >>
LowerLetters == << "a", "b", "c", "d", "e", "f", "g", "h", "i", "j", "k", "l", "m", "n", "o", "p", "q", "r", "s", "t", "u", "v", "w", "x", "y", "z" >>
DigitChars == {"0", "1", "2", "3", "4", "5", "6", "7", "8", "9"}

\* String.prototype.toUpperCase, one character
ToUpperCase(c) ==
    IF \E k \in DOMAIN LowerLetters : LowerLetters[k] = c
    THEN UpperLetters[CHOOSE k \in DOMAIN LowerLetters : LowerLetters[k] = c]
    ELSE c

\* String.prototype.startsWith
StartsWith(s, prefix) ==
    Len(prefix) <= Len(s) /\ SubSeq(s, 1, Len(prefix)) = prefix

\* The keywords of the second header pattern (line 267)
SectionKeywords ==
    { << "E", "X", "P", "E", "R", "I", "E", "N", "C", "E" >>,
      << "E", "D", "U", "C", "A", "T", "I", "O", "N" >>,
      << "S", "K", "I", "L", "L", "S" >>,
      << "P", "R", "O", "J", "E", "C", "T", "S" >>,
      << "S", "U", "M", "M", "A", "R", "Y" >>,
      << "C", "O", "N", "T", "A", "C", "T" >>,
      << "W", "O", "R", "K", " ", "H", "I", "S", "T", "O", "R", "Y" >> }

\* /^[A-Z\s]{3,}$/ (line 266)
AllCapsLine(line) ==
    /\ Len(line) >= 3
    /\ \A k \in DOMAIN line : line[k] \in Range(UpperLetters) \/ IsSpace(line[k])

\* /^(EXPERIENCE|...|WORK HISTORY)/i (line 267)
KeywordLine(line) ==
    \E keyword \in SectionKeywords :
        StartsWith([k \in DOMAIN line |-> ToUpperCase(line[k])], keyword)

\* isHeader (lines 266-268)
IsHeader(trimmedLine) ==
    \/ AllCapsLine(trimmedLine)
    \/ KeywordLine(trimmedLine)
    \/ StartsWith(trimmedLine, << "#" >>)

\* isBullet (line 271); the bullet glyph is written as one character
BulletGlyph == "bullet"
IsBullet(trimmedLine) ==
    \/ StartsWith(trimmedLine, << BulletGlyph >>)
    \/ StartsWith(trimmedLine, << "-" >>)
    \/ StartsWith(trimmedLine, << "*" >>)

\* /^[A-Za-z0-9\s&,.-]+(\s\|\s|\s\s\s)[A-Za-z0-9\s,.-]+$/ (line 297)
NameSeparatorName(line) ==
    LET right(c) == \/ c \in Range(UpperLetters) \/ c \in Range(LowerLetters)
                    \/ c \in DigitChars \/ IsSpace(c) \/ c \in {",", ".", "-"}
        left(c) == right(c) \/ c = "&"
    IN  \E k \in 2..(Len(line) - 3) :
            /\ IsSpace(line[k]) /\ IsSpace(line[k + 2])
            /\ line[k + 1] = "|" \/ IsSpace(line[k + 1])
            /\ \A j \in 1..(k - 1) : left(line[j])
            /\ \A j \in (k + 3)..Len(line) : right(line[j])

\* isSubHeader (lines 297-298)
IsSubHeader(trimmedLine) ==
    \/ NameSeparatorName(trimmedLine)
    \/ /\ Len(trimmedLine) < 50
       /\ \/ Includes(trimmedLine, << "2", "0" >>)
          \/ Includes(trimmedLine, << "P", "r", "e", "s", "e", "n", "t" >>)

\* The branch of the forEach body a line takes (lines 259-300)
LineKind(line) ==
    LET trimmedLine == Trim(line)
    IN  IF trimmedLine = Empty THEN "blank"
        ELSE IF IsHeader(trimmedLine) THEN "header"
        ELSE IF IsBullet(trimmedLine) THEN "bullet"
        ELSE IF IsSubHeader(trimmedLine) THEN "subHeader"
        ELSE "body"

\* Lines of a document handed to downloadAsPDF.
RenderLines ==
    { << "S", "K", "I", "L", "L", "S" >>,
      << "S", "k", "i", "l", "l", "s", " ", "2", "0", "2", "0" >>,
      << "#", " ", "I", "n", "t", "r", "o" >>,
      << "-", " ", "B", "u", "i", "l", "t", " ", "2", "0", "2", "0" >>,
      << "J", "a", "n", " ", "2", "0", "2", "0", " ", "-", " ", "P", "r", "e", "s", "e", "n", "t" >>,
      << "G", "r", "a", "d", "u", "a", "t", "e", "d", " ", "1", "9", "9", "9" >>,
      << "A", "c", "m", "e", " ", "|", " ", "R", "e", "m", "o", "t", "e" >>,
      << "B", "u", "i", "l", "t", " ", "s", "y", "s", "t", "e", "m", "s" >>,
      << >>,
      << " ", " " >> }
\* How many rows splitTextToSize can break a line into.
RowCounts == {1, 20}
\* How many lines of one document are laid out.
MaxLines == 3

\* line 249 and the 20 of line 315; the 275 of line 313
TopMargin == 20
SafeBottom == 275

\* Lines 245-249: a fresh document, the cursor at the top of its first page.
NewDocument == [y |-> 2 * TopMargin, page |-> 1, blocks |-> << >>, lines |-> 0]

\* One text block handed to doc.text: the trimmed line, its kind, its rows, and
\* the page and (doubled) position it is drawn at.
Block(trimmedLine, kind, rows, page, y) ==
    [line |-> trimmedLine, kind |-> kind, rows |-> rows, page |-> page, at |-> y]

\* One pass of the forEach body (lines 258-321) over line, which
\* splitTextToSize breaks into rows rows.
Rendered(doc, line, rows) ==
    LET kind == LineKind(line)
        trimmedLine == Trim(line)
    IN  CASE kind = "blank" -> [doc EXCEPT !.y = @ + 8, !.lines = @ + 1]
          [] kind = "header" ->
               LET at == IF doc.y > 2 * TopMargin THEN doc.y + 12 ELSE doc.y
               IN  [doc EXCEPT !.y = at + 4 + 10,
                               !.lines = @ + 1,
                               !.blocks = Append(@, Block(trimmedLine, kind, 1,
                                                          doc.page, at))]
          [] kind = "bullet" ->
               [doc EXCEPT !.y = @ + 11 * rows,
                           !.lines = @ + 1,
                           !.blocks = Append(@, Block(trimmedLine, kind, rows,
                                                      doc.page, doc.y))]
          [] OTHER ->
               LET overflow == doc.y + 10 * rows > 2 * SafeBottom
                   page == IF overflow THEN doc.page + 1 ELSE doc.page
                   at == IF overflow THEN 2 * TopMargin ELSE doc.y
               IN  [doc EXCEPT !.y = at + 11 * rows,
                               !.lines = @ + 1,
                               !.page = page,
                               !.blocks = Append(@, Block(trimmedLine, kind, rows,
                                                          page, at))]

\* downloadAsPDF is entered (lines 244-249)
StartDocument ==
    /\ pdf = None
    /\ pdf' = Some(NewDocument)
    /\ lastOp' = << "render", "start" >>
    /\ UNCHANGED << expandedJobs, effects >>
    /\ UNCHANGED << coreVars, editVars, tailorVars, mailVars, fuel >>

\* the forEach of downloadAsPDF takes the next line
RenderLine(line, rows) ==
    /\ pdf # None
    /\ pdf[1].lines < MaxLines
    /\ pdf' = Some(Rendered(pdf[1], line, rows))
    /\ lastOp' = << "render", LineKind(line) >>
    /\ UNCHANGED << expandedJobs, effects >>
    /\ UNCHANGED << coreVars, editVars, tailorVars, mailVars, fuel >>

\* doc.save (line 323)
SaveDocument ==
    /\ pdf # None
    /\ pdf' = None
    /\ lastOp' = << "render", "saved" >>
    /\ UNCHANGED << expandedJobs, effects >>
    /\ UNCHANGED << coreVars, editVars, tailorVars, mailVars, fuel >>

\* The board of a first upload, with no request left to issue: the page only
\* lays out documents.
InitRender ==
    /\ AfterUpload(StructureResume(<< "G", "o" >>, Empty), << SkGo >>)
    /\ fuel = [uploads |-> 0, searches |-> 0, tailors |-> 0, mails |-> 0]

NextRender ==
    \/ StartDocument
    \/ \E line \in RenderLines, rows \in RowCounts : RenderLine(line, rows)
    \/ SaveDocument

SpecRender == InitRender /\ [][NextRender]_vars


(***************************************************************************)
(* C27: the kind of a line is decided in the order header, bullet,         *)
(* sub-header, body: every non-empty trimmed line that satisfies the       *)
(* header rule is a header, whatever else it satisfies, and a line of      *)
(* under 50 characters that is not all capitals, is neither header nor     *)
(* bullet and contains "Present" or a four-digit year is a sub-header.     *)
(***************************************************************************)
C27_ClassificationOrder ==
    LET YearLike(line) ==
            \E k \in 1..(Len(line) - 3) :
                /\ \A j \in k..(k + 3) : line[j] \in DigitChars
                /\ k = 1 \/ line[k - 1] \notin DigitChars
                /\ k + 3 = Len(line) \/ line[k + 4] \notin DigitChars
    IN  pdf # None
        => \A b \in DOMAIN pdf[1].blocks :
              LET block == pdf[1].blocks[b]
              IN  /\ IsHeader(block.line) => block.kind = "header"
                  /\ ( /\ ~IsHeader(block.line)
                       /\ ~IsBullet(block.line)
                       /\ Len(block.line) < 50
                       /\ \/ YearLike(block.line)
                          \/ Includes(block.line,
                                      << "P", "r", "e", "s", "e", "n", "t" >>) )
                     => block.kind = "subHeader"

(***************************************************************************)
(* C28: every block, of whatever kind, is drawn only after the overflow    *)
(* check: a block whose projected position passes the safe bottom margin   *)
(* (275) is drawn at the top margin (20) of a new page.                    *)
(***************************************************************************)
C28_OverflowCheckedBeforeEveryBlock ==
    pdf # None
    => \A b \in DOMAIN pdf[1].blocks :
          LET block == pdf[1].blocks[b]
          IN  \/ block.at + 10 * block.rows <= 2 * SafeBottom
              \/ block.at = 2 * TopMargin


(***************************************************************************)
(* C31: addSkill with an empty or whitespace-only input does nothing: the  *)
(* analysis, the job list, the error and the searching flag stay as they   *)
(* are and no search is issued.  So a step of addSkill that changes any of *)
(* them has added a skill that is non-empty after trimming.                *)
(***************************************************************************)
C31_BlankSkillIgnored ==
    [][ lastOp'[1] = "addSkill"
        => \/ /\ analysis' = analysis
              /\ jobs' = jobs
              /\ error' = error
              /\ isSearching' = isSearching
              /\ searches' = searches
              /\ lastRequest' = lastRequest
           \/ /\ lastOp'[2] = "added"
              /\ \E s \in SkillInputs :
                    /\ Trim(s) # Empty
                    /\ Trim(s) \in Range(analysis'[1].skills)
                    /\ Range(analysis'[1].skills)
                         = Range(analysis[1].skills) \cup {Trim(s)} ]_vars

\* C31 witness: a blank input was submitted on a board that shows jobs.
C31_Witness ==
    /\ lastOp = << "addSkill", "ignored" >>
    /\ analysis # None
    /\ jobs # << >>
    /\ ~isSearching


(***************************************************************************)
(* The skill operations called as operations on the board of a first       *)
(* upload, whose skill list may hold the same skill twice.                 *)
(***************************************************************************)
InitSkills ==
    /\ \E gatewaySkills \in {<< SkGo >>, << SkGo, SkGoLower, SkGo >>} :
          AfterUpload(StructureResume(<< "G", "o" >>, Empty), gatewaySkills)
    /\ fuel = [uploads |-> 0, searches |-> BoardSearches + 1, tailors |-> 0,
               mails |-> 0]

NextSkills ==
    \/ PlainSearchStep
    \/ \E s \in {SkGo, SkC} : HandleRemoveSkill(s)
    \/ \E s \in {Blank, << " ", "C", " " >>} : AddSkill(s)
    \/ StartOver

SpecSkills == InitSkills /\ [][NextSkills]_vars

(***************************************************************************)
(* C32: removeSkill(s) on an analysis removes every entry equal to s and   *)
(* no other, so with s absent the list keeps its entries and their order;  *)
(* it sets no error, and it issues one search with the updated analysis.   *)
(***************************************************************************)
C32_RemoveSkillExactMatch ==
    [][ (lastOp'[1] = "removeSkill" /\ analysis # None)
        => /\ \E s \in {SkGo, SkC} :
                 /\ analysis'[1].skills
                      = SelectSeq(analysis[1].skills, LAMBDA x : x # s)
                 /\ s \notin Range(analysis[1].skills)
                      => analysis'[1].skills = analysis[1].skills
           /\ analysis'[1].summary = analysis[1].summary
           /\ error' = None
           /\ jobs' = jobs
           /\ Len(searches') = Len(searches) + 1
           /\ \A i \in DOMAIN searches : searches'[i] = searches[i]
           /\ searches'[Len(searches')].st = "pending"
           /\ lastRequest'
                = Some(SearchRequest(analysis'[1], timeFilter, jobType)) ]_vars

\* C32 witness: the skill that was listed twice has been removed, the one
\* spelled differently is left, and the search carries the shorter list.
C32_Witness ==
    /\ lastOp = << "removeSkill", "removed" >>
    /\ analysis # None
    /\ analysis[1].skills = << SkGoLower >>
    /\ lastRequest = Some(SearchRequest(analysis[1], timeFilter, jobType))


(***************************************************************************)
(* Search criteria: boards whose analysis lists one, five or six skills    *)
(* and has a location, an empty one or none, on which both filters are     *)
(* changed.                                                                *)
(***************************************************************************)
SixSkillResume == << "a", "b", "c", "d", "e", "f" >>
SkillLists ==
    { << << "a" >> >>,
      << << "e" >>, << "d" >>, << "c" >>, << "b" >>, << "a" >> >>,
      << << "f" >>, << "e" >>, << "d" >>, << "c" >>, << "b" >>, << "a" >> >> }
Locations == { None, Some(Empty), Some(<< "O", "s", "l", "o" >>) }

\* The parsed gateway answer with its nullable location (geminiService.ts:60)
Located(a, place) ==
    IF place = None THEN a
    ELSE [k \in DOMAIN a \cup {"location"} |->
             IF k = "location" THEN place[1] ELSE a[k]]

InitCriteria ==
    /\ \E gatewaySkills \in SkillLists, place \in Locations :
          Board(SixSkillResume, gatewaySkills,
                Located(AnalyzeResume(SixSkillResume, gatewaySkills), place))
    /\ fuel = [uploads |-> 0, searches |-> BoardSearches + 1, tailors |-> 0,
               mails |-> 0]

NextCriteria ==
    \/ PlainSearchStep
    \/ \E f \in TimeFilters : ChangeFilter(f)
    \/ \E t \in JobTypes : ChangeJobType(t)

SpecCriteria == InitCriteria /\ [][NextCriteria]_vars

(***************************************************************************)
(* C33: the request of a search carries the first five skills of the       *)
(* analysis, in list order (all of them if there are fewer); the recency   *)
(* window is "last 24 hours" for 24h, "last 2 days" for 48h, "last 3 days" *)
(* for 72h; with job type remote no sentence of the location constraint    *)
(* names the analysis's location, with hybrid or onsite the job-type       *)
(* sentence follows the location-based one, and with all there is only the *)
(* location-based one.                                                     *)
(***************************************************************************)
C33_SearchCriteria ==
    lastRequest # None
    => LET request == lastRequest[1]
           criteria == request.criteria
           skills == request.analysis.skills
           typed == {"ONLY search for 100% REMOTE jobs",
                     "ONLY search for HYBRID roles", "ONLY search for ONSITE roles"}
           located(sentence) ==
               /\ sentence.text \notin typed
               /\ ("location" \in DOMAIN request.analysis
                   /\ request.analysis.location # Empty)
                    => sentence.place = Some(request.analysis.location)
       IN  /\ Len(criteria.skills) <= 5
           /\ Len(criteria.skills) = (IF Len(skills) < 5 THEN Len(skills) ELSE 5)
           /\ \A k \in DOMAIN criteria.skills : criteria.skills[k] = skills[k]
           /\ request.filter = "24h" => criteria.window = "last 24 hours"
           /\ request.filter = "48h" => criteria.window = "last 2 days"
           /\ request.filter = "72h" => criteria.window = "last 3 days"
           /\ request.type = "remote"
                => \A k \in DOMAIN criteria.constraint :
                      criteria.constraint[k].place = None
           /\ request.type \in {"hybrid", "onsite"}
                => /\ Len(criteria.constraint) = 2
                   /\ located(criteria.constraint[1])
                   /\ criteria.constraint[2].text
                        = (IF request.type = "hybrid"
                           THEN "ONLY search for HYBRID roles"
                           ELSE "ONLY search for ONSITE roles")
           /\ request.type = "all"
                => /\ Len(criteria.constraint) = 1
                   /\ located(criteria.constraint[1])

\* C33 witness: a search for onsite jobs of the last two days on an analysis
\* of six skills with a location.
C33_Witness ==
    /\ lastRequest # None
    /\ Len(lastRequest[1].analysis.skills) = 6
    /\ lastRequest[1].criteria.skills
         = << << "f" >>, << "e" >>, << "d" >>, << "c" >>, << "b" >> >>
    /\ lastRequest[1].filter = "48h"
    /\ lastRequest[1].type = "onsite"
    /\ lastRequest[1].criteria.constraint[1].place = Some(<< "O", "s", "l", "o" >>)


(***************************************************************************)
(* C34: once the user has started over and every request that was in       *)
(* flight at that moment has resolved, the job list and the resume text    *)
(* are empty.  Here the only upload run has ended with an analysis, so an  *)
(* absent analysis means the user has started over, after which no request *)
(* can be issued any more.                                                 *)
(***************************************************************************)
C34_StartOverStaysEmpty ==
    ( /\ analysis = None
      /\ \E i \in DOMAIN uploads : uploads[i].stage = "done"
      /\ Pending(searches) = {} )
    => (jobs = << >> /\ resumeText = Empty)


(***************************************************************************)
(* C35: whenever there is a live analysis it is the analysis of the        *)
(* current resume text.  No skill is added or removed and no edit session  *)
(* is committed here, so the analysis must be the filtered answer of a     *)
(* finished run whose text is the resume text.                             *)
(***************************************************************************)
C35_ProfileMatchesText ==
    analysis # None
    => \E i \in DOMAIN uploads :
          /\ uploads[i].stage = "done"
          /\ uploads[i].text = resumeText
          /\ analysis[1] = AnalyzeResume(uploads[i].text, uploads[i].gateway)


(***************************************************************************)
(* C36: right after the edit modal is opened, after a snapshot and after   *)
(* an undo that had something to undo, the draft equals the last history   *)
(* entry; a snapshot appends exactly one entry, the whole current draft;   *)
(* and an undo made directly after a snapshot gives back the history as it *)
(* was before the snapshot, with its last entry as the draft.              *)
(***************************************************************************)
C36_SnapshotUndoRelation ==
    [][ /\ ( \/ lastOp'[1] = "openEditModal" /\ analysis # None
             \/ lastOp'[1] = "saveField"
             \/ lastOp' = << "undoField", "restored" >> )
           => /\ history' # << >>
              /\ editDraft' = Some(history'[Len(history')])
        /\ lastOp'[1] = "saveField"
           => /\ history' = Append(history, editDraft[1])
              /\ editDraft' = editDraft
        /\ (lastOp[1] = "saveField" /\ lastOp'[1] = "undoField")
           => /\ lastOp'[2] = "restored"
              /\ Append(history', editDraft[1]) = history
              /\ editDraft' = Some(history'[Len(history')]) ]_vars

\* C36 witness: a snapshot of an edited draft has just been taken.
C36_Witness ==
    /\ lastOp = << "saveField", "" >>
    /\ Len(history) = 2
    /\ history[2] # history[1]
    /\ editDraft = Some(history[2])


(***************************************************************************)
(* C37: within one run of sendApplicationEmail the composeEmail request,   *)
(* if enabled, has resolved before the tailoring request, if enabled, is   *)
(* issued; every enabled export comes before the mail link; the mail link  *)
(* is activated at most once, at the end of the run, and only if every     *)
(* enabled gateway request succeeded; and the sending flag is set exactly  *)
(* while a run is under way.                                               *)
(***************************************************************************)
C37_MailHandoffOrdering ==
    [][ LET options == IF mailRun = None THEN emailOptions
                       ELSE mailRun[1].options
            job == IF mailRun = None THEN emailModalJob[1] ELSE mailRun[1].job
            composed == mailRun # None /\ mailRun[1].stage = "composing"
                          /\ lastOp' = << "composeResolved", "ok" >>
            tailored == mailRun # None /\ mailRun[1].stage = "tailoring"
                          /\ lastOp' = << "mailTailorResolved", "ok" >>
        IN  /\ isSendingMail' = (mailRun' # None)
            /\ Len(tailors') > Len(tailors)
                 => /\ Len(tailors') = Len(tailors) + 1
                    /\ options.generateMailContent => composed
                    /\ ~options.generateMailContent => lastOp'[1] = "sendMail"
                    /\ NeedsTailoring(options)
                    /\ mailRun' # None /\ mailRun'[1].stage = "tailoring"
                    /\ ~MailLinkActivated(effects')
            /\ (lastOp'[1] \in MailOps /\ MailLinkActivated(effects'))
                 => /\ mailRun' = None
                    /\ Cardinality({k \in DOMAIN effects' :
                                      effects'[k].effect = "mailto"}) = 1
                    /\ effects'[Len(effects')] = MailLink(job)
                    /\ SubSeq(effects', 1, Len(effects') - 1)
                         = TailoredAttachments(job, options)
                             \o OriginalAttachment(options)
                    /\ NeedsTailoring(options) => tailored
                    /\ (options.generateMailContent /\ ~NeedsTailoring(options))
                         => composed
                    /\ options.generateMailContent
                         => RequestsOf(mailRun[1].requests, "compose") = 1
            /\ (lastOp'[1] \in MailOps /\ mailRun' = None)
                 => MailLinkActivated(effects')
                      = ( \/ lastOp'[1] = "sendMail"
                          \/ lastOp'[2] = "ok" ) ]_vars

\* C37 witness: a run with the composed mail and all three documents has
\* handed off.
C37_Witness ==
    /\ lastOp = << "mailTailorResolved", "ok" >>
    /\ emailOptions.generateMailContent
    /\ Len(effects) = 4
    /\ effects[1].artifact = "resume"
    /\ effects[2].artifact = "coverLetter"
    /\ effects[3].artifact = "original"
    /\ effects[4].effect = "mailto"
    /\ ~isSendingMail
    /\ emailModalJob = None

=============================================================================
